---- MODULE Spec2Model ----
(***************************************************************************)
(* Model of the cultist selector, src/cultist.py compute_cultist_selection *)
(* One call of the function is a run of the state machine: candidate       *)
(* preparation, value quantization, the DP solve (one action per row of    *)
(* the unbounded DP, one action per unit of the 0/1 DP), the feasibility   *)
(* scan, the back-pointer walk (one action per loop iteration) and the     *)
(* aggregation.  Indices are 0-based as in the source; a Python list is a  *)
(* TLA+ sequence read at index+1.  A dict entry is a record; a key the     *)
(* dict lacks (dict.get -> None) is a field the record lacks.              *)
(***************************************************************************)
EXTENDS Integers, Sequences, FiniteSets

VARIABLES items_data, threshold, max_items, mode, randomize,
          pc, candidates, units, dp, prevV, prevI, prevU,
          u_idx, best, ccount, vb, counts, result

\* the /cultist command of src/main.py: position of the handler, the
\* interaction (deferred flag, follow-up messages sent), the number of calls
\* of the selector and the embed under construction
VARIABLES cmd_pc, deferred, followups, selector_calls, embed

\* the 'Selection' fields of the embed as a function of the lines: the
\* lengths of the lines and the fields built from them
VARIABLES line_lens, sel_fields

\* fetch_items_data of src/price_search.py: the cache file, the clock, the
\* number of clock steps taken, the callers in flight, the number of fetches
\* answered and the successful cache writes so far
VARIABLES cache_file, now, ticks, callers, fetched, writes

\* best_trader_buy of src/price_search.py: the buyFor list of an item and
\* the catalog entry built from it
VARIABLES buy_for, entry

\* find_item of src/price_search.py: the arguments with the scores the
\* matcher gives, and the value returned
VARIABLES find_in, find_out

inputs == <<items_data, threshold, max_items, mode, randomize>>
tables == <<dp, prevV, prevI, prevU>>
selector == <<inputs, pc, candidates, units, tables, u_idx, best, ccount, vb,
              counts, result>>
command == <<cmd_pc, deferred, followups, selector_calls, embed>>
chunker == <<line_lens, sel_fields>>
fetcher == <<cache_file, now, ticks, callers, fetched, writes>>
trader == <<buy_for, entry>>
finder == <<find_in, find_out>>
\* what a step of the command handler or of the selector cannot touch
outsideCommand == <<chunker, fetcher, trader, finder>>
\* what a step of the selector cannot touch
outsideSelector == <<command, outsideCommand>>
vars == <<items_data, threshold, max_items, mode, randomize,
          pc, candidates, units, dp, prevV, prevI, prevU,
          u_idx, best, ccount, vb, counts, result, command,
          chunker, fetcher, trader, finder>>

(* ---------------- bounds of the model ---------------- *)
MaxCatalogLen == 2
MaxK == 3

(* ---------------- program constants ---------------- *)
STEP == 500
MAX_OVER == 50000
\* 10**18 in the source; TLC integers are 32 bits wide, and every cost sum
\* of the model stays far below this value, as it does below 10**18.
INF == 1000000000

(* ---------------- input domains ---------------- *)
\* Catalog entries.  A has a trader buy limit of 2, B has none; C has a
\* trader offer only, limited to one purchase, and the value of S; S is worth
\* less than one bucket; H is worth more than threshold + MAX_OVER for every
\* threshold of the model and has a buy limit of 0; Z has a non-positive
\* value; P has a flea price and a non-positive trader price.
EntryA == [name |-> "A", basePrice |-> 1000, pvePrice |-> 100,
           traderBuyPrice |-> 100, traderBuyLimit |-> 2,
           traderBuyVendor |-> "prapor", traderMinLevel |-> 1]
EntryB == [name |-> "B", basePrice |-> 600, pvePrice |-> 50,
           traderBuyPrice |-> 50]
EntryC == [name |-> "C", basePrice |-> 100,
           traderBuyPrice |-> 40, traderBuyLimit |-> 1,
           traderBuyVendor |-> "skier"]
EntryS == [name |-> "S", basePrice |-> 100, pvePrice |-> 10,
           traderBuyPrice |-> 60, traderBuyLimit |-> 1]
EntryH == [name |-> "H", basePrice |-> 52000, pvePrice |-> 100,
           traderBuyPrice |-> 100, traderBuyLimit |-> 0]
EntryZ == [name |-> "Z", basePrice |-> 0, pvePrice |-> 5,
           traderBuyPrice |-> 5]
EntryP == [name |-> "P", basePrice |-> 26000, pvePrice |-> 70,
           traderBuyPrice |-> 0]

Pool == <<EntryA, EntryB, EntryC, EntryH, EntryP, EntryS, EntryZ>>
Thresholds == {0, 1000, 1500}
Modes == {"pve", "pvp"}

\* the entries of Pool at the positions I, in Pool's order
RECURSIVE PoolItems(_)
PoolItems(I) ==
    IF I = {} THEN <<>>
    ELSE LET m == CHOOSE i \in I : \A j \in I : i <= j
         IN <<Pool[m]>> \o PoolItems(I \ {m})

\* items_data: None, a dict without "items", or a dict with an item list;
\* the shuffle of line 70 supplies the other orders of the candidates
Catalogs == {[tag |-> "None", items |-> <<>>],
             [tag |-> "NoItemsKey", items |-> <<>>]}
            \cup {[tag |-> "Dict", items |-> PoolItems(I)] :
                    I \in {J \in SUBSET (1..Len(Pool)) : Cardinality(J) <= MaxCatalogLen}}

(* ---------------- helpers ---------------- *)
Min(a, b) == IF a <= b THEN a ELSE b
Max(a, b) == IF a >= b THEN a ELSE b
\* math.ceil(n / d) for n >= 0, d > 0
Ceil(n, d) == (n + d - 1) \div d
\* isinstance(it.get(k), int): the key is present (present values are ints)
IsInt(it, k) == k \in DOMAIN it

\* all orderings of a sequence (random.shuffle)
Shuffles(s) ==
    {[i \in 1..Len(s) |-> s[p[i]]] :
        p \in {q \in [1..Len(s) -> 1..Len(s)] :
                 \A i, j \in 1..Len(s) : i # j => q[i] # q[j]}}

(* ---------------- candidate preparation, lines 25-64 ---------------- *)
\* mode or "pvp" of line 25
SelectedMode(m) == IF m = "" THEN "pvp" ELSE m

VendorLabel(it) ==
    IF IsInt(it, "traderBuyVendor")
    THEN <<it.traderBuyVendor,
           IF IsInt(it, "traderMinLevel") THEN it.traderMinLevel ELSE -1>>
    ELSE <<"unknown", -1>>

\* variant: the limit test of line 51 written as buy_limit >= 0
Cap_ZeroLimit(it, maxItems) ==
    IF IsInt(it, "traderBuyLimit") /\ it.traderBuyLimit >= 0
    THEN Min(it.traderBuyLimit, maxItems)
    ELSE maxItems

\* the effective cap of lines 51-54
Cap(it, maxItems) ==
    IF IsInt(it, "traderBuyLimit") /\ it.traderBuyLimit > 0
    THEN Min(it.traderBuyLimit, maxItems)
    ELSE maxItems

\* variant: the cost is read from pvePrice in both regimes
IsValid_FleaCostOnly(it, m) ==
    /\ IsInt(it, "basePrice") /\ it.basePrice > 0
    /\ IsInt(it, "pvePrice") /\ it.pvePrice > 0

\* variant: the value test of line 31 written as value < 0
IsValid_ZeroValue(it, m) ==
    /\ IsInt(it, "basePrice") /\ it.basePrice >= 0
    /\ IF m = "pve"
       THEN IsInt(it, "pvePrice") /\ it.pvePrice > 0
       ELSE IsInt(it, "traderBuyPrice") /\ it.traderBuyPrice > 0

IsValid(it, m) ==
    /\ IsInt(it, "basePrice") /\ it.basePrice > 0
    /\ IF m = "pve"
       THEN IsInt(it, "pvePrice") /\ it.pvePrice > 0
       ELSE IsInt(it, "traderBuyPrice") /\ it.traderBuyPrice > 0

\* one candidate record; vb is filled in by the quantization, cap is only
\* present in the trader regime
MakeCandidate(it, m, maxItems) ==
    IF m = "pve"
    THEN [name |-> it.name, value |-> it.basePrice, cost |-> it.pvePrice]
    ELSE [name |-> it.name, value |-> it.basePrice, cost |-> it.traderBuyPrice,
          vendor_label |-> VendorLabel(it), cap |-> Cap(it, maxItems)]

RECURSIVE BuildCandidates(_, _, _)
BuildCandidates(items, m, maxItems) ==
    IF items = <<>> THEN <<>>
    ELSE LET it == Head(items)
             rest == BuildCandidates(Tail(items), m, maxItems)
         IN IF IsValid(it, m) THEN <<MakeCandidate(it, m, maxItems)>> \o rest
            ELSE rest

(* ---------------- value quantization, lines 72-81 ---------------- *)
KOf(maxItems) == Max(1, maxItems)
Tb(thr) == Ceil(thr, STEP)
VbMax(thr) == Ceil(thr + MAX_OVER, STEP)
\* variant: the bucket is not clamped to vb_max
Bucket_NoClamp(value, thr) == Ceil(value, STEP)

Bucket(value, thr) == Min(Ceil(value, STEP), VbMax(thr))

Quantize(cands, thr) ==
    [i \in 1..Len(cands) |->
        [f \in DOMAIN cands[i] \cup {"vb"} |->
            IF f = "vb" THEN Bucket(cands[i].value, thr) ELSE cands[i][f]]]

(* ---------------- DP tables, lines 87-90 and 129-132 ---------------- *)
NewTable(K, vb_max, v) == [c \in 0..K |-> [b \in 0..vb_max |-> v]]
NewDp(K, vb_max) == [NewTable(K, vb_max, INF) EXCEPT ![0][0] = 0]

(* ---------------- unbounded DP, lines 92-114 ---------------- *)
\* the loop over the candidates of lines 98-110 for one cell; idx is the
\* 0-based index of the next candidate, b the running best
\* variant: the test of line 101 written as pv <= 0
RECURSIVE ScanCandidates_SkipZero(_, _, _, _, _)
ScanCandidates_SkipZero(cands, base_prev, vbi, idx, b) ==
    IF idx = Len(cands) THEN b
    ELSE LET it == cands[idx + 1]
             pv == vbi - it.vb
         IN IF pv <= 0 \/ base_prev[pv] = INF
            THEN ScanCandidates_SkipZero(cands, base_prev, vbi, idx + 1, b)
            ELSE LET new_cost == base_prev[pv] + it.cost
                 IN IF new_cost < b.best_cost
                    THEN ScanCandidates_SkipZero(cands, base_prev, vbi, idx + 1,
                            [best_cost |-> new_cost, best_prev_v |-> pv,
                             best_prev_i |-> idx])
                    ELSE ScanCandidates_SkipZero(cands, base_prev, vbi, idx + 1, b)

\* variant: the first candidate that fits is kept, cheaper ones are not taken
RECURSIVE ScanCandidates_KeepFirst(_, _, _, _, _)
ScanCandidates_KeepFirst(cands, base_prev, vbi, idx, b) ==
    IF idx = Len(cands) THEN b
    ELSE LET it == cands[idx + 1]
             pv == vbi - it.vb
         IN IF pv < 0 \/ base_prev[pv] = INF \/ b.best_prev_i >= 0
            THEN ScanCandidates_KeepFirst(cands, base_prev, vbi, idx + 1, b)
            ELSE ScanCandidates_KeepFirst(cands, base_prev, vbi, idx + 1,
                    [best_cost |-> base_prev[pv] + it.cost, best_prev_v |-> pv,
                     best_prev_i |-> idx])

\* variant: line 110 stands outside the test of line 107, so best_prev_i is
\* the last candidate that fits, not the one that gave best_cost
RECURSIVE ScanCandidates_LastIndex(_, _, _, _, _)
ScanCandidates_LastIndex(cands, base_prev, vbi, idx, b) ==
    IF idx = Len(cands) THEN b
    ELSE LET it == cands[idx + 1]
             pv == vbi - it.vb
         IN IF pv < 0 \/ base_prev[pv] = INF
            THEN ScanCandidates_LastIndex(cands, base_prev, vbi, idx + 1, b)
            ELSE LET new_cost == base_prev[pv] + it.cost
                 IN IF new_cost < b.best_cost
                    THEN ScanCandidates_LastIndex(cands, base_prev, vbi, idx + 1,
                            [best_cost |-> new_cost, best_prev_v |-> pv,
                             best_prev_i |-> idx])
                    ELSE ScanCandidates_LastIndex(cands, base_prev, vbi, idx + 1,
                            [b EXCEPT !.best_prev_i = idx])

RECURSIVE ScanCandidates(_, _, _, _, _)
ScanCandidates(cands, base_prev, vbi, idx, b) ==
    IF idx = Len(cands) THEN b
    ELSE LET it == cands[idx + 1]
             pv == vbi - it.vb
         IN IF pv < 0 THEN ScanCandidates(cands, base_prev, vbi, idx + 1, b)
            ELSE IF base_prev[pv] = INF
                 THEN ScanCandidates(cands, base_prev, vbi, idx + 1, b)
            ELSE LET new_cost == base_prev[pv] + it.cost
                 IN IF new_cost < b.best_cost
                    THEN ScanCandidates(cands, base_prev, vbi, idx + 1,
                            [best_cost |-> new_cost, best_prev_v |-> pv,
                             best_prev_i |-> idx])
                    ELSE ScanCandidates(cands, base_prev, vbi, idx + 1, b)

\* lines 94-110 for the cell (cc, vbi)
PveCell(d, cands, cc, vbi) ==
    ScanCandidates(cands, d[cc - 1], vbi, 0,
                   [best_cost |-> d[cc][vbi], best_prev_v |-> -1,
                    best_prev_i |-> -1])

\* variant: line 113 records the cell's own bucket, prevV[ccount][vb] = vb
PveRow_OwnBucket(d, pV, pI, cands, cc, vb_max) ==
    LET cell == [b \in 0..vb_max |-> PveCell(d, cands, cc, b)]
        hit(b) == cell[b].best_cost < d[cc][b]
    IN [dp |-> [d EXCEPT ![cc] =
                  [b \in 0..vb_max |-> IF hit(b) THEN cell[b].best_cost ELSE d[cc][b]]],
        prevV |-> [pV EXCEPT ![cc] =
                  [b \in 0..vb_max |-> IF hit(b) THEN b ELSE pV[cc][b]]],
        prevI |-> [pI EXCEPT ![cc] =
                  [b \in 0..vb_max |-> IF hit(b) THEN cell[b].best_prev_i ELSE pI[cc][b]]]]

\* one iteration of the loop of line 92: row cc of the three tables
PveRow(d, pV, pI, cands, cc, vb_max) ==
    LET cell == [b \in 0..vb_max |-> PveCell(d, cands, cc, b)]
        hit(b) == cell[b].best_cost < d[cc][b]
    IN [dp |-> [d EXCEPT ![cc] =
                  [b \in 0..vb_max |-> IF hit(b) THEN cell[b].best_cost ELSE d[cc][b]]],
        prevV |-> [pV EXCEPT ![cc] =
                  [b \in 0..vb_max |-> IF hit(b) THEN cell[b].best_prev_v ELSE pV[cc][b]]],
        prevI |-> [pI EXCEPT ![cc] =
                  [b \in 0..vb_max |-> IF hit(b) THEN cell[b].best_prev_i ELSE pI[cc][b]]]]

(* ---------------- 0/1 DP over units, lines 118-146 ---------------- *)
\* lines 119-127: candidate idx contributes max(1, min(K, cap)) units
RECURSIVE ExpandUnits(_, _, _)
ExpandUnits(cands, idx, K) ==
    IF idx = Len(cands) THEN <<>>
    ELSE LET c == cands[idx + 1]
             cap0 == IF "cap" \in DOMAIN c THEN c.cap ELSE K
             cap == Max(1, Min(K, cap0))
         IN [i \in 1..cap |-> [idx |-> idx, vb |-> c.vb, cost |-> c.cost]]
            \o ExpandUnits(cands, idx + 1, K)

\* variant: ccount runs upwards (range(1, K + 1)), so row ccount-1 has
\* already been updated by this unit when row ccount reads it
RECURSIVE AscendingRows(_, _, _, _, _, _)
AscendingRows(t, u, ui, c, K, vb_max) ==
    IF c > K THEN t
    ELSE LET hit(b) == /\ b >= u.vb
                       /\ t.dp[c - 1][b - u.vb] # INF
                       /\ t.dp[c - 1][b - u.vb] + u.cost < t.dp[c][b]
         IN AscendingRows(
              [dp |-> [t.dp EXCEPT ![c] = [b \in 0..vb_max |->
                         IF hit(b) THEN t.dp[c - 1][b - u.vb] + u.cost ELSE t.dp[c][b]]],
               prevV |-> [t.prevV EXCEPT ![c] = [b \in 0..vb_max |->
                         IF hit(b) THEN b - u.vb ELSE t.prevV[c][b]]],
               prevU |-> [t.prevU EXCEPT ![c] = [b \in 0..vb_max |->
                         IF hit(b) THEN ui ELSE t.prevU[c][b]]]],
              u, ui, c + 1, K, vb_max)

PvpUnit_Ascending(d, pV, pU, u, ui, K, vb_max) ==
    AscendingRows([dp |-> d, prevV |-> pV, prevU |-> pU], u, ui, 1, K, vb_max)

\* one iteration of the loop of line 134.  ccount runs downwards, so the
\* row ccount-1 read at lines 140-142 still holds the values of before this
\* unit: every cell is updated from the tables as they were on entry.
PvpUnit(d, pV, pU, u, ui, K, vb_max) ==
    LET hit(c, b) == /\ c >= 1
                     /\ b >= u.vb
                     /\ d[c - 1][b - u.vb] # INF
                     /\ d[c - 1][b - u.vb] + u.cost < d[c][b]
    IN [dp |-> [c \in 0..K |-> [b \in 0..vb_max |->
                  IF hit(c, b) THEN d[c - 1][b - u.vb] + u.cost ELSE d[c][b]]],
        prevV |-> [c \in 0..K |-> [b \in 0..vb_max |->
                  IF hit(c, b) THEN b - u.vb ELSE pV[c][b]]],
        prevU |-> [c \in 0..K |-> [b \in 0..vb_max |->
                  IF hit(c, b) THEN ui ELSE pU[c][b]]]]

(* ---------------- feasible solutions, lines 148-161 ---------------- *)
\* the inner loop of lines 151-154 for one count, from bucket b upwards
RECURSIVE CollectRow(_, _, _, _)
CollectRow(d, vb_max, cc, b) ==
    IF b > vb_max THEN <<>>
    ELSE (IF d[cc][b] < INF THEN << <<d[cc][b], cc, b>> >> ELSE <<>>)
         \o CollectRow(d, vb_max, cc, b + 1)

\* variant: the bucket loop of line 151 starts at 0 instead of tb
RECURSIVE CollectOptions_FromZero(_, _, _, _, _)
CollectOptions_FromZero(d, K, tb, vb_max, cc) ==
    IF cc > K THEN <<>>
    ELSE CollectRow(d, vb_max, cc, 0)
         \o CollectOptions_FromZero(d, K, tb, vb_max, cc + 1)

\* the scan of lines 150-154: options in the order they are appended
RECURSIVE CollectOptions(_, _, _, _, _)
CollectOptions(d, K, tb, vb_max, cc) ==
    IF cc > K THEN <<>>
    ELSE CollectRow(d, vb_max, cc, tb) \o CollectOptions(d, K, tb, vb_max, cc + 1)

\* tuple comparison of the sort key (t[0], t[1], t[2]) of line 160
\* variant: the key written as (t[2], t[0], t[1]), least overshoot first
KeyLess_BucketFirst(s, t) ==
    \/ s[3] < t[3]
    \/ s[3] = t[3] /\ s[1] < t[1]
    \/ s[3] = t[3] /\ s[1] = t[1] /\ s[2] < t[2]

\* variant: more items first among equal costs
KeyLess_MoreItems(s, t) ==
    \/ s[1] < t[1]
    \/ s[1] = t[1] /\ s[2] > t[2]
    \/ s[1] = t[1] /\ s[2] = t[2] /\ s[3] < t[3]

KeyLess(s, t) ==
    \/ s[1] < t[1]
    \/ s[1] = t[1] /\ s[2] < t[2]
    \/ s[1] = t[1] /\ s[2] = t[2] /\ s[3] < t[3]

\* x goes in front of the first element whose key is greater (stable)
RECURSIVE InsertOption(_, _)
InsertOption(sorted, x) ==
    IF sorted = <<>> THEN <<x>>
    ELSE IF KeyLess(x, Head(sorted)) THEN <<x>> \o sorted
    ELSE <<Head(sorted)>> \o InsertOption(Tail(sorted), x)

\* options.sort(key=...) of line 160
RECURSIVE SortOptions(_)
SortOptions(opts) ==
    IF opts = <<>> THEN <<>>
    ELSE InsertOption(SortOptions(SubSeq(opts, 1, Len(opts) - 1)), opts[Len(opts)])

(* ---------------- reconstruction, lines 164-185 ---------------- *)
\* counts[idx] = counts.get(idx, 0) + 1 on a dict that keeps insertion
\* order: a sequence of <<idx, cnt>> pairs
CountsGet(cnts, idx) ==
    IF \E i \in 1..Len(cnts) : cnts[i][1] = idx
    THEN (CHOOSE p \in {cnts[i] : i \in 1..Len(cnts)} : p[1] = idx)[2]
    ELSE 0

\* variant: counts.get(idx, 1) + 1
CountsPut_DefaultOne(cnts, idx) ==
    IF \E i \in 1..Len(cnts) : cnts[i][1] = idx
    THEN [i \in 1..Len(cnts) |->
            IF cnts[i][1] = idx THEN <<idx, cnts[i][2] + 1>> ELSE cnts[i]]
    ELSE Append(cnts, <<idx, 2>>)

CountsPut(cnts, idx) ==
    IF \E i \in 1..Len(cnts) : cnts[i][1] = idx
    THEN [i \in 1..Len(cnts) |->
            IF cnts[i][1] = idx THEN <<idx, cnts[i][2] + 1>> ELSE cnts[i]]
    ELSE Append(cnts, <<idx, 1>>)

(* ---------------- aggregation, lines 187-210 ---------------- *)
\* the sort key (-value, cost) of line 191
\* variant: the key written as -value alone
ItemKeyLess_ValueOnly(cands, x, y) ==
    -cands[x[1] + 1].value < -cands[y[1] + 1].value

ItemKeyLess(cands, x, y) ==
    LET cx == cands[x[1] + 1]
        cy == cands[y[1] + 1]
    IN \/ -cx.value < -cy.value
       \/ cx.value = cy.value /\ cx.cost < cy.cost

RECURSIVE InsertItem(_, _, _)
InsertItem(cands, sorted, x) ==
    IF sorted = <<>> THEN <<x>>
    ELSE IF ItemKeyLess(cands, x, Head(sorted)) THEN <<x>> \o sorted
    ELSE <<Head(sorted)>> \o InsertItem(cands, Tail(sorted), x)

\* sorted(counts.items(), key=...) of line 191
RECURSIVE SortItems(_, _)
SortItems(cands, cnts) ==
    IF cnts = <<>> THEN <<>>
    ELSE InsertItem(cands, SortItems(cands, SubSeq(cnts, 1, Len(cnts) - 1)),
                    cnts[Len(cnts)])

RECURSIVE SumValue(_, _)
SumValue(cands, cnts) ==
    IF cnts = <<>> THEN 0
    ELSE cands[Head(cnts)[1] + 1].value * Head(cnts)[2] + SumValue(cands, Tail(cnts))

RECURSIVE SumCost(_, _)
SumCost(cands, cnts) ==
    IF cnts = <<>> THEN 0
    ELSE cands[Head(cnts)[1] + 1].cost * Head(cnts)[2] + SumCost(cands, Tail(cnts))

\* one rendered line of lines 195-204: the parts the format string shows
SelLine(cands, m, p) ==
    LET item == cands[p[1] + 1]
    IN IF m = "pvp"
       THEN [cnt |-> p[2], name |-> item.name, value |-> item.value,
             cost |-> item.cost,
             vendor_lbl |-> IF "vendor_label" \in DOMAIN item
                            THEN item.vendor_label ELSE <<"", -1>>]
       ELSE [cnt |-> p[2], name |-> item.name, value |-> item.value,
             cost |-> item.cost]

\* lines 188-210; the returned total_cost is best_cost, the local total_cost
\* of line 194 is computed and dropped
Aggregation(cands, m, cnts, best_cost) ==
    LET ordered == SortItems(cands, cnts)
    IN [outcome |-> "ok",
        total_value |-> SumValue(cands, ordered),
        total_cost |-> best_cost,
        sel_lines |-> [i \in 1..Len(ordered) |-> SelLine(cands, m, ordered[i])]]

Failure(msg) ==
    [outcome |-> msg, total_value |-> 0, total_cost |-> 0, sel_lines |-> <<>>]

(* ---------------- the call as a state machine ---------------- *)
Running == [outcome |-> "running", total_value |-> 0, total_cost |-> 0,
            sel_lines |-> <<>>]

\* no embed has been built
NoEmbed == [description |-> "", fields |-> <<>>]

\* the parts of the program a specification does not exercise stay as they
\* are before their first use
ChunkerIdle == line_lens = <<>> /\ sel_fields = [built |-> FALSE, fields |-> <<>>]
FetcherIdle ==
    /\ cache_file = [state |-> "absent", data |-> 0, mtime |-> 0]
    /\ now = 0
    /\ ticks = 0
    /\ callers = <<>>
    /\ fetched = 0
    /\ writes = <<>>
TraderIdle == buy_for = <<>> /\ entry = [built |-> FALSE]
FinderIdle == find_in = <<>> /\ find_out = <<>>
OutsideCommandIdle == ChunkerIdle /\ FetcherIdle /\ TraderIdle /\ FinderIdle

\* no command handler is running
CommandIdle ==
    /\ cmd_pc = "none"
    /\ deferred = FALSE
    /\ followups = <<>>
    /\ selector_calls = 0
    /\ embed = NoEmbed

\* the locals of compute_cultist_selection before its first statement
FreshLocals ==
    /\ candidates = <<>>
    /\ units = <<>>
    /\ dp = <<>>
    /\ prevV = <<>>
    /\ prevI = <<>>
    /\ prevU = <<>>
    /\ u_idx = 0
    /\ best = <<>>
    /\ ccount = 0
    /\ vb = 0
    /\ counts = <<>>
    /\ result = Running

Init ==
    /\ items_data \in Catalogs
    /\ threshold \in Thresholds
    /\ max_items \in 1..MaxK
    /\ mode \in Modes
    /\ randomize \in BOOLEAN
    /\ pc = "start"
    /\ FreshLocals
    /\ CommandIdle
    /\ OutsideCommandIdle

\* variant: only a missing catalog is rejected, the "items" key is not tested
MissingCatalog_OnlyNone(d) == d.tag = "None"

\* line 22: not items_data or "items" not in items_data
MissingCatalog(d) == d.tag # "Dict"

\* variant: line 70 shuffles items_data["items"] in place before the
\* candidates are built from it
Prepare_ShuffleCatalog ==
    /\ pc = "start"
    /\ IF MissingCatalog(items_data)
       THEN /\ result' = Failure("Missing items data")
            /\ pc' = "done"
            /\ UNCHANGED <<candidates, items_data>>
       ELSE /\ \E order \in (IF randomize THEN Shuffles(items_data.items)
                                          ELSE {items_data.items}) :
                  items_data' = [items_data EXCEPT !.items = order]
            /\ LET built == BuildCandidates(items_data'.items, SelectedMode(mode), max_items)
               IN IF built = <<>>
                  THEN /\ result' = Failure("No valid candidates")
                       /\ pc' = "done"
                       /\ UNCHANGED candidates
                  ELSE /\ candidates' = Quantize(built, threshold)
                       /\ pc' = "tables"
                       /\ UNCHANGED result
    /\ UNCHANGED <<threshold, max_items, mode, randomize, tables, units, u_idx,
                   best, ccount, vb, counts>>
    /\ UNCHANGED outsideSelector

\* lines 22-81: catalog check, candidate list, shuffle, buckets
Prepare ==
    /\ pc = "start"
    /\ IF MissingCatalog(items_data)
       THEN /\ result' = Failure("Missing items data")
            /\ pc' = "done"
            /\ UNCHANGED candidates
       ELSE LET built == BuildCandidates(items_data.items, SelectedMode(mode), max_items)
            IN IF built = <<>>
               THEN /\ result' = Failure("No valid candidates")
                    /\ pc' = "done"
                    /\ UNCHANGED candidates
               ELSE /\ \E order \in (IF randomize THEN Shuffles(built) ELSE {built}) :
                          candidates' = Quantize(order, threshold)
                    /\ pc' = "tables"
                    /\ UNCHANGED result
    /\ UNCHANGED <<inputs, tables, units, u_idx, best, ccount, vb, counts>>
    /\ UNCHANGED outsideSelector

\* lines 85-90 and 116-132: fresh tables, and the unit list in the trader regime
BeginSolve ==
    /\ pc = "tables"
    /\ dp' = NewDp(KOf(max_items), VbMax(threshold))
    /\ prevV' = NewTable(KOf(max_items), VbMax(threshold), -1)
    /\ IF SelectedMode(mode) = "pve"
       THEN /\ prevI' = NewTable(KOf(max_items), VbMax(threshold), -1)
            /\ ccount' = 1
            /\ pc' = "pve"
            /\ UNCHANGED <<prevU, units, u_idx>>
       ELSE /\ prevU' = NewTable(KOf(max_items), VbMax(threshold), -1)
            /\ units' = ExpandUnits(candidates, 0, KOf(max_items))
            /\ u_idx' = 0
            /\ pc' = "pvp"
            /\ UNCHANGED <<prevI, ccount>>
    /\ UNCHANGED <<inputs, candidates, best, vb, counts, result>>
    /\ UNCHANGED outsideSelector

\* one iteration of the loop of line 92
PveRowStep ==
    /\ pc = "pve"
    /\ LET r == PveRow(dp, prevV, prevI, candidates, ccount, VbMax(threshold))
       IN /\ dp' = r.dp
          /\ prevV' = r.prevV
          /\ prevI' = r.prevI
    /\ ccount' = ccount + 1
    /\ pc' = IF ccount = KOf(max_items) THEN "select" ELSE "pve"
    /\ UNCHANGED <<inputs, candidates, units, prevU, u_idx, best, vb, counts, result>>
    /\ UNCHANGED outsideSelector

\* one iteration of the loop of line 134
PvpUnitStep ==
    /\ pc = "pvp"
    /\ LET r == PvpUnit(dp, prevV, prevU, units[u_idx + 1], u_idx,
                        KOf(max_items), VbMax(threshold))
       IN /\ dp' = r.dp
          /\ prevV' = r.prevV
          /\ prevU' = r.prevU
    /\ u_idx' = u_idx + 1
    /\ pc' = IF u_idx + 1 = Len(units) THEN "select" ELSE "pvp"
    /\ UNCHANGED <<inputs, candidates, units, prevI, best, ccount, vb, counts, result>>
    /\ UNCHANGED outsideSelector

\* lines 148-165: feasibility scan, sort, choice of the start cell
Select ==
    /\ pc = "select"
    /\ LET options == CollectOptions(dp, KOf(max_items), Tb(threshold),
                                     VbMax(threshold), 1)
       IN IF options = <<>>
          THEN /\ result' = Failure("No feasible selection for given constraints")
               /\ pc' = "done"
               /\ UNCHANGED <<best, ccount, vb, counts>>
          ELSE LET first == SortOptions(options)[1]
               IN /\ best' = [best_cost |-> first[1], best_count |-> first[2],
                              best_vb |-> first[3]]
                  /\ counts' = <<>>
                  /\ ccount' = first[2]
                  /\ vb' = first[3]
                  /\ pc' = "walk"
                  /\ UNCHANGED result
    /\ UNCHANGED <<inputs, candidates, units, tables, u_idx>>
    /\ UNCHANGED outsideSelector

\* one test of the loop condition of line 167 / 177 and, when it holds, one
\* iteration of the body; the break of line 171 / 181 leaves the loop
WalkStep ==
    /\ pc = "walk"
    /\ IF ccount > 0 /\ vb >= 0
       THEN LET ptr == IF SelectedMode(mode) = "pve"
                       THEN prevI[ccount][vb] ELSE prevU[ccount][vb]
                pv == prevV[ccount][vb]
            IN IF ptr < 0 \/ pv < 0
               THEN /\ pc' = "aggregate"
                    /\ UNCHANGED <<counts, vb, ccount>>
               ELSE /\ counts' = CountsPut(counts,
                                    IF SelectedMode(mode) = "pve" THEN ptr
                                    ELSE units[ptr + 1].idx)
                    /\ vb' = pv
                    /\ ccount' = ccount - 1
                    /\ UNCHANGED pc
       ELSE /\ pc' = "aggregate"
            /\ UNCHANGED <<counts, vb, ccount>>
    /\ UNCHANGED <<inputs, candidates, units, tables, u_idx, best, result>>
    /\ UNCHANGED outsideSelector

\* lines 187-210
Aggregate ==
    /\ pc = "aggregate"
    /\ result' = Aggregation(candidates, SelectedMode(mode), counts, best.best_cost)
    /\ pc' = "done"
    /\ UNCHANGED <<inputs, candidates, units, tables, u_idx, best, ccount, vb, counts>>
    /\ UNCHANGED outsideSelector

Next ==
    \/ Prepare
    \/ BeginSolve
    \/ PveRowStep
    \/ PvpUnitStep
    \/ Select
    \/ WalkStep
    \/ Aggregate

Spec == Init /\ [][Next]_vars

TypeOK == pc \in {"start", "tables", "pve", "pvp", "select", "walk", "aggregate", "done"}

(* ---------------- the call as one function ---------------- *)
\* The same steps composed, for statements that compare two calls.
RECURSIVE PveSolve(_, _, _, _, _)
PveSolve(t, cands, cc, K, thr) ==
    IF cc > K THEN t
    ELSE PveSolve(PveRow(t.dp, t.prevV, t.prevI, cands, cc, VbMax(thr)),
                  cands, cc + 1, K, thr)

RECURSIVE PvpSolve(_, _, _, _, _)
PvpSolve(t, us, ui, K, thr) ==
    IF ui = Len(us) THEN t
    ELSE PvpSolve(PvpUnit(t.dp, t.prevV, t.prevU, us[ui + 1], ui, K, VbMax(thr)),
                  us, ui + 1, K, thr)

\* the loops of lines 167-174 and 177-185; ptrs is prevI or prevU, us the
\* unit list (empty in the flea regime)
RECURSIVE Walk(_, _, _, _, _, _)
Walk(pV, ptrs, us, cc, b, cnts) ==
    IF ~(cc > 0 /\ b >= 0) THEN cnts
    ELSE LET ptr == ptrs[cc][b]
             pv == pV[cc][b]
         IN IF ptr < 0 \/ pv < 0 THEN cnts
            ELSE Walk(pV, ptrs, us, cc - 1, pv,
                      CountsPut(cnts, IF us = <<>> THEN ptr ELSE us[ptr + 1].idx))

\* lines 83-210 on a quantized candidate list
Solve(cands, thr, maxItems, m) ==
    LET K == KOf(maxItems)
        us == IF m = "pve" THEN <<>> ELSE ExpandUnits(cands, 0, K)
        t0 == [dp |-> NewDp(K, VbMax(thr)), prevV |-> NewTable(K, VbMax(thr), -1)]
        t == IF m = "pve"
             THEN PveSolve([dp |-> t0.dp, prevV |-> t0.prevV,
                            prevI |-> NewTable(K, VbMax(thr), -1)], cands, 1, K, thr)
             ELSE PvpSolve([dp |-> t0.dp, prevV |-> t0.prevV,
                            prevU |-> NewTable(K, VbMax(thr), -1)], us, 0, K, thr)
        options == CollectOptions(t.dp, K, Tb(thr), VbMax(thr), 1)
    IN IF options = <<>>
       THEN [result |-> Failure("No feasible selection for given constraints"),
             counts |-> <<>>]
       ELSE LET first == SortOptions(options)[1]
                cnts == Walk(t.prevV, IF m = "pve" THEN t.prevI ELSE t.prevU,
                             us, first[2], first[3], <<>>)
            IN [result |-> Aggregation(cands, m, cnts, first[1]), counts |-> cnts]

(* ---------------- the /cultist command, src/main.py lines 54-126 -------- *)
\* the character budget of one 'Selection' field, line 116
FieldLimit == 1000

\* len() of the strings of the model
StrLen(str) ==
    CASE str \in {"A", "B", "C", "H", "P", "S", "Z"} -> 1
      [] str = "prapor" -> 6
      [] str = "skier" -> 5
      [] str = "unknown" -> 7
      [] OTHER -> 0

\* len(str(n)) and len(f"{n:,}") for n >= 0
RECURSIVE Digits(_)
Digits(n) == IF n < 10 THEN 1 ELSE 1 + Digits(n \div 10)
CommaLen(n) == Digits(n) + (Digits(n) - 1) \div 3

\* len() of the label of line 55: "{vendor} L{level}", the level shown as
\* '?' when it is not an int
LabelLen(lbl) ==
    StrLen(lbl[1]) + 2 + (IF lbl[2] >= 0 THEN Digits(lbl[2]) ELSE 1)

\* len() of one rendered line of cultist.py lines 198-204 (the entries of
\* the model carry no link)
LineLen(line) ==
    1 + Digits(line.cnt) + 3 + StrLen(line.name)
    + 9 + CommaLen(line.value) + 1
    + 8 + CommaLen(line.cost) + 1
    + (IF "vendor_lbl" \in DOMAIN line THEN 3 + LabelLen(line.vendor_lbl) ELSE 0)

\* variant: the test of line 116 without 'and chunk'
RECURSIVE ChunkLoop_NoEmptyTest(_, _, _, _, _)
ChunkLoop_NoEmptyTest(lens, i, chunk, current, fields) ==
    IF i > Len(lens)
    THEN IF chunk # <<>> THEN Append(fields, chunk) ELSE fields
    ELSE LET flush == current + lens[i] + 1 > FieldLimit
         IN ChunkLoop_NoEmptyTest(lens, i + 1,
                      Append(IF flush THEN <<>> ELSE chunk, i),
                      (IF flush THEN 0 ELSE current) + lens[i] + 1,
                      IF flush THEN Append(fields, chunk) ELSE fields)

\* the loop of lines 115-122 from line i on, and the flush of lines 123-124;
\* a chunk is the list of the positions of its lines in sel_lines
RECURSIVE ChunkLoop(_, _, _, _, _)
ChunkLoop(lens, i, chunk, current, fields) ==
    IF i > Len(lens)
    THEN IF chunk # <<>> THEN Append(fields, chunk) ELSE fields
    ELSE LET flush == current + lens[i] + 1 > FieldLimit /\ chunk # <<>>
         IN ChunkLoop(lens, i + 1,
                      Append(IF flush THEN <<>> ELSE chunk, i),
                      (IF flush THEN 0 ELSE current) + lens[i] + 1,
                      IF flush THEN Append(fields, chunk) ELSE fields)

\* lines 112-124: the 'Selection' fields for lines of the given lengths
SelectionFields(lens) ==
    IF lens = <<>> THEN <<>> ELSE ChunkLoop(lens, 1, <<>>, 0, <<>>)

\* lines 96-126: the embed built from a selector result
BuildEmbedFrom(res, thr, maxItems, m) ==
    LET chunks == SelectionFields([i \in 1..Len(res.sel_lines) |->
                                      LineLen(res.sel_lines[i])])
    IN [description |-> IF res.total_value >= thr
                        THEN "Threshold met" ELSE "Threshold not met",
        fields |-> << [name |-> "Mode", value |-> <<m>>],
                      [name |-> "Threshold", value |-> <<thr>>],
                      [name |-> "Max items", value |-> <<maxItems>>],
                      [name |-> "Total Value", value |-> <<res.total_value>>],
                      [name |-> "Total Cost", value |-> <<res.total_cost>>] >>
                   \o [k \in 1..Len(chunks) |->
                         [name |-> "Selection",
                          value |-> [j \in 1..Len(chunks[k]) |->
                                       res.sel_lines[chunks[k][j]]]]]]

\* the catalog variable before fetch_items_data has returned
NoCatalogYet == [tag |-> "None", items |-> <<>>]

\* an invocation of the command with its arguments; the selector has not
\* been entered
InitCommand ==
    /\ cmd_pc = "defer"
    /\ deferred = FALSE
    /\ followups = <<>>
    /\ selector_calls = 0
    /\ embed = NoEmbed
    /\ items_data = NoCatalogYet
    /\ threshold \in Thresholds
    /\ max_items \in 1..MaxK
    /\ mode \in Modes
    /\ randomize \in BOOLEAN
    /\ pc = "idle"
    /\ FreshLocals
    /\ OutsideCommandIdle

\* line 77: await interaction.response.defer()
Defer ==
    /\ cmd_pc = "defer"
    /\ deferred' = TRUE
    /\ cmd_pc' = "fetch"
    /\ UNCHANGED <<followups, selector_calls, embed>>
    /\ UNCHANGED <<inputs, pc, candidates, units, tables, u_idx, best, ccount,
                   vb, counts, result>>
    /\ UNCHANGED outsideCommand

\* line 80: fetch_items_data() returns None or the catalog dict
FetchCatalog ==
    /\ cmd_pc = "fetch"
    /\ items_data' \in Catalogs
    /\ cmd_pc' = "call"
    /\ UNCHANGED <<deferred, followups, selector_calls, embed>>
    /\ UNCHANGED <<threshold, max_items, mode, randomize, pc, candidates, units,
                   tables, u_idx, best, ccount, vb, counts, result>>
    /\ UNCHANGED outsideCommand

\* lines 81-88: the call of compute_cultist_selection inside the try
CallSelector ==
    /\ cmd_pc = "call"
    /\ selector_calls' = selector_calls + 1
    /\ pc' = "start"
    /\ cmd_pc' = "selector"
    /\ UNCHANGED <<deferred, followups, embed>>
    /\ UNCHANGED <<inputs, candidates, units, tables, u_idx, best, ccount,
                   vb, counts, result>>
    /\ UNCHANGED outsideCommand

\* variant: the return of line 91 is missing, the handler goes on to line 126
SendError_NoReturn ==
    /\ cmd_pc = "selector"
    /\ pc = "done"
    /\ result.outcome # "ok"
    /\ followups' = Append(followups,
                           [content |-> <<"Error: ", result.outcome>>,
                            embed |-> NoEmbed])
    /\ cmd_pc' = "send"
    /\ UNCHANGED <<deferred, selector_calls, embed>>
    /\ UNCHANGED <<inputs, pc, candidates, units, tables, u_idx, best, ccount,
                   vb, counts, result>>
    /\ UNCHANGED outsideCommand

\* lines 89-91: the selector raised; one text follow-up, then return
SendError ==
    /\ cmd_pc = "selector"
    /\ pc = "done"
    /\ result.outcome # "ok"
    /\ followups' = Append(followups,
                           [content |-> <<"Error: ", result.outcome>>,
                            embed |-> NoEmbed])
    /\ cmd_pc' = "returned"
    /\ UNCHANGED <<deferred, selector_calls, embed>>
    /\ UNCHANGED <<inputs, pc, candidates, units, tables, u_idx, best, ccount,
                   vb, counts, result>>
    /\ UNCHANGED outsideCommand

\* lines 93-124: the selector returned; the embed is built
BuildEmbed ==
    /\ cmd_pc = "selector"
    /\ pc = "done"
    /\ result.outcome = "ok"
    /\ embed' = BuildEmbedFrom(result, threshold, max_items, SelectedMode(mode))
    /\ cmd_pc' = "send"
    /\ UNCHANGED <<deferred, followups, selector_calls>>
    /\ UNCHANGED <<inputs, pc, candidates, units, tables, u_idx, best, ccount,
                   vb, counts, result>>
    /\ UNCHANGED outsideCommand

\* line 126: await interaction.followup.send(embed=embed)
SendEmbed ==
    /\ cmd_pc = "send"
    /\ followups' = Append(followups, [content |-> <<>>, embed |-> embed])
    /\ cmd_pc' = "returned"
    /\ UNCHANGED <<deferred, selector_calls, embed>>
    /\ UNCHANGED <<inputs, pc, candidates, units, tables, u_idx, best, ccount,
                   vb, counts, result>>
    /\ UNCHANGED outsideCommand

NextCommand ==
    \/ Defer
    \/ FetchCatalog
    \/ CallSelector
    \/ Prepare
    \/ BeginSolve
    \/ PveRowStep
    \/ PvpUnitStep
    \/ Select
    \/ WalkStep
    \/ Aggregate
    \/ SendError
    \/ BuildEmbed
    \/ SendEmbed

SpecCommand == InitCommand /\ [][NextCommand]_vars

(* ---------------- the selector and the command at rest ---------------- *)
SelectorIdle ==
    /\ items_data = NoCatalogYet
    /\ threshold = 0
    /\ max_items = 1
    /\ mode = "pvp"
    /\ randomize = FALSE
    /\ pc = "idle"
    /\ FreshLocals

(* ---------------- the 'Selection' fields as a function ---------------- *)
\* bound: the number of lines of a selection
MaxLines == 4

\* line lengths: a short line, two halves of the budget that fit a field
\* together, a half that does not fit with the other half, and a line
\* longer than the budget
LineLengths == {40, FieldLimit \div 2 - 1, FieldLimit \div 2, FieldLimit + 1}

RECURSIVE SeqsUpTo(_, _)
SeqsUpTo(S, n) ==
    IF n = 0 THEN {<<>>}
    ELSE LET shorter == SeqsUpTo(S, n - 1)
         IN shorter \cup {Append(q, x) : q \in {r \in shorter : Len(r) = n - 1}, x \in S}

InitSelectionFields ==
    /\ line_lens \in SeqsUpTo(LineLengths, MaxLines)
    /\ sel_fields = [built |-> FALSE, fields |-> <<>>]
    /\ SelectorIdle /\ CommandIdle
    /\ FetcherIdle /\ TraderIdle /\ FinderIdle

\* lines 112-124 applied to the lines
AddSelectionFields ==
    /\ ~sel_fields.built
    /\ sel_fields' = [built |-> TRUE, fields |-> SelectionFields(line_lens)]
    /\ UNCHANGED <<line_lens, selector, command, fetcher, trader, finder>>

NextSelectionFields == AddSelectionFields

SpecSelectionFields == InitSelectionFields /\ [][NextSelectionFields]_vars

(* ---------------- fetch_items_data, src/price_search.py lines 16-214 ---- *)
\* the same code with another file and query is fetch_ammo_data,
\* src/ammo_search.py lines 16-83
CACHE_TTL_SECONDS == 600

\* bounds: handlers in flight at once, invocations in total, clock steps
MaxCallers == 2
MaxCalls == 3
MaxTicks == 2

\* the value None, and the content of a cache file that cannot be parsed
NoneData == -1
NoContent == 0

\* the cache file: absent; ok (JSON, its content named by a number);
\* unparsable (json.load raises); unreadable (open raises)
FileStates == {"absent", "ok", "unparsable", "unreadable"}

\* what the POST of lines 102-107 and the processing of lines 109-203 can
\* do: a result, a status other than 200, or an exception
NetOutcomes == {"ok", "status", "exception"}

\* what the write of lines 205-209 can do: the file is written; open raises
\* and the file is as before; json.dump raises after open has truncated it
WriteOutcomes == {"written", "open_failed", "dump_failed"}

\* variant: the test of line 30 written as <= CACHE_TTL_SECONDS
CacheLookup_AgeInclusive(file, t) ==
    IF file.state = "ok" /\ t - file.mtime <= CACHE_TTL_SECONDS
    THEN [hit |-> TRUE, data |-> file.data]
    ELSE [hit |-> FALSE, data |-> NoneData]

\* variant: the handler of line 33 returns None when the file cannot be read
CacheLookup_ErrorReturnsNone(file, t) ==
    IF file.state \in {"unparsable", "unreadable"}
    THEN [hit |-> TRUE, data |-> NoneData]
    ELSE IF file.state = "ok" /\ t - file.mtime < CACHE_TTL_SECONDS
    THEN [hit |-> TRUE, data |-> file.data]
    ELSE [hit |-> FALSE, data |-> NoneData]

\* lines 27-34 at time t: the content when the file exists, is younger than
\* the TTL and loads; every exception falls through to the fetch
CacheLookup(file, t) ==
    IF file.state = "absent" THEN [hit |-> FALSE, data |-> NoneData]
    ELSE IF ~(t - file.mtime < CACHE_TTL_SECONDS) THEN [hit |-> FALSE, data |-> NoneData]
    ELSE IF file.state = "ok" THEN [hit |-> TRUE, data |-> file.data]
    ELSE [hit |-> FALSE, data |-> NoneData]

\* variant: a failed fetch falls back to whatever the cache file holds
FailedFetchReturn_StaleCache(file) ==
    IF file.state = "ok" THEN file.data ELSE NoneData

\* lines 104-106 and 212-214: a failed fetch returns None
FailedFetchReturn(file) == NoneData

\* lines 205-209 at time t for the result named id
WriteCache(file, id, t, w) ==
    CASE w = "written" -> [state |-> "ok", data |-> id, mtime |-> t]
      [] w = "open_failed" -> file
      [] w = "dump_failed" -> [state |-> "unparsable", data |-> NoContent, mtime |-> t]

IdleCaller == [pc |-> "idle", issued |-> FALSE, ret |-> NoneData,
               net |-> "none", wrote |-> "none", calls |-> 0]

RECURSIVE CallsBy(_, _)
CallsBy(cs, n) == IF n = 0 THEN 0 ELSE cs[n].calls + CallsBy(cs, n - 1)

InitFetch ==
    /\ cache_file \in {[state |-> st, data |-> NoContent, mtime |-> 0] : st \in FileStates}
    /\ now = 0
    /\ ticks = 0
    /\ callers = [p \in 1..MaxCallers |-> IdleCaller]
    /\ fetched = 0
    /\ writes = <<>>
    /\ SelectorIdle /\ CommandIdle
    /\ ChunkerIdle /\ TraderIdle /\ FinderIdle

\* a handler calls fetch_items_data: lines 27-34, and on a miss the POST of
\* line 103 is sent
StartCall(p) ==
    /\ callers[p].pc = "idle"
    /\ CallsBy(callers, MaxCallers) < MaxCalls
    /\ LET look == CacheLookup(cache_file, now)
       IN callers' = [callers EXCEPT ![p] =
              [pc |-> IF look.hit THEN "returned" ELSE "request",
               issued |-> ~look.hit,
               ret |-> look.data,
               net |-> "none",
               wrote |-> "none",
               calls |-> callers[p].calls + 1]]
    /\ UNCHANGED <<cache_file, now, ticks, fetched, writes>>
    /\ UNCHANGED <<selector, command, chunker, trader, finder>>

\* the POST is answered: lines 104-214
Respond(p) ==
    /\ callers[p].pc = "request"
    /\ \E n \in NetOutcomes :
          IF n = "ok"
          THEN \E w \in WriteOutcomes :
                  /\ fetched' = fetched + 1
                  /\ cache_file' = WriteCache(cache_file, fetched + 1, now, w)
                  /\ writes' = IF w = "written"
                               THEN Append(writes, [data |-> fetched + 1, time |-> now])
                               ELSE writes
                  /\ callers' = [callers EXCEPT ![p].pc = "returned",
                                                ![p].ret = fetched + 1,
                                                ![p].net = n,
                                                ![p].wrote = w]
          ELSE /\ callers' = [callers EXCEPT ![p].pc = "returned",
                                             ![p].ret = FailedFetchReturn(cache_file),
                                             ![p].net = n]
               /\ UNCHANGED <<cache_file, fetched, writes>>
    /\ UNCHANGED <<now, ticks>>
    /\ UNCHANGED <<selector, command, chunker, trader, finder>>

\* the handler that called is done; the next invocation may call again
FinishCall(p) ==
    /\ callers[p].pc = "returned"
    /\ callers' = [callers EXCEPT ![p] = [IdleCaller EXCEPT !.calls = callers[p].calls]]
    /\ UNCHANGED <<cache_file, now, ticks, fetched, writes>>
    /\ UNCHANGED <<selector, command, chunker, trader, finder>>

\* time passes: one second, or one second less than the TTL
Tick ==
    /\ ticks < MaxTicks
    /\ \E d \in {1, CACHE_TTL_SECONDS - 1} : now' = now + d
    /\ ticks' = ticks + 1
    /\ UNCHANGED <<cache_file, callers, fetched, writes>>
    /\ UNCHANGED <<selector, command, chunker, trader, finder>>

NextFetch ==
    \/ \E p \in 1..MaxCallers : StartCall(p)
    \/ \E p \in 1..MaxCallers : Respond(p)
    \/ \E p \in 1..MaxCallers : FinishCall(p)
    \/ Tick

SpecFetch == InitFetch /\ [][NextFetch]_vars

(* ---------------- best_trader_buy, src/price_search.py lines 125-178 ---- *)
\* bound: the number of offers in a buyFor list
MaxOffers == 3

\* a value that may be None: <<>> is None, <<v>> is v
None == <<>>
Some(v) == <<v>>

\* buyFor offers as the API returns them: the flea market has no trader
\* fields and is the cheapest; prapor and skier ask the same price, skier
\* with a null buyLimit; peacekeeper carries only buyLimit; one trader offer
\* has price 0, one has a null price, one offer has no vendor
OfferFlea == [priceRUB |-> Some(50), vendor |-> [normalizedName |-> Some("flea-market")]]
OfferPrapor == [priceRUB |-> Some(100),
                vendor |-> [normalizedName |-> Some("prapor"),
                            minTraderLevel |-> Some(1), buyLimit |-> Some(2)]]
OfferSkier == [priceRUB |-> Some(100),
               vendor |-> [normalizedName |-> Some("skier"),
                           minTraderLevel |-> Some(2), buyLimit |-> None]]
OfferPeacekeeper == [priceRUB |-> Some(80),
                     vendor |-> [normalizedName |-> Some("peacekeeper"),
                                 buyLimit |-> Some(5)]]
OfferFree == [priceRUB |-> Some(0),
              vendor |-> [normalizedName |-> Some("therapist"),
                          minTraderLevel |-> Some(1), buyLimit |-> Some(1)]]
OfferNoPrice == [priceRUB |-> None,
                 vendor |-> [normalizedName |-> Some("mechanic"),
                             minTraderLevel |-> Some(1), buyLimit |-> Some(1)]]
OfferNoVendor == [priceRUB |-> Some(60)]
Offers == {OfferFlea, OfferPrapor, OfferSkier, OfferPeacekeeper, OfferFree,
           OfferNoPrice, OfferNoVendor}

\* it.get("buyFor"): None or a list
BuyForLists == {[present |-> FALSE, offers |-> <<>>]}
               \cup {[present |-> TRUE, offers |-> q] : q \in SeqsUpTo(Offers, MaxOffers)}

\* d.get(k) on a dict modelled as a record
Get(d, k) == IF k \in DOMAIN d THEN d[k] ELSE None

\* bf.get("vendor") or {}
VendorOf(bf) == IF "vendor" \in DOMAIN bf THEN bf.vendor ELSE [x \in {} |-> None]

\* variant: line 136 with 'or', an offer needs both trader fields
IsTraderOffer_BothFields(bf) ==
    /\ Get(bf, "priceRUB") # None
    /\ Get(bf, "priceRUB")[1] > 0
    /\ ~("minTraderLevel" \notin DOMAIN VendorOf(bf)
          \/ "buyLimit" \notin DOMAIN VendorOf(bf))

\* the tests of lines 134-138: an int price above 0 and a vendor that has
\* the key minTraderLevel or the key buyLimit
IsTraderOffer(bf) ==
    /\ Get(bf, "priceRUB") # None
    /\ Get(bf, "priceRUB")[1] > 0
    /\ ~("minTraderLevel" \notin DOMAIN VendorOf(bf)
          /\ "buyLimit" \notin DOMAIN VendorOf(bf))

\* lines 129-144: the candidate list, in the order of the offers
RECURSIVE TraderCandidates(_)
TraderCandidates(offers) ==
    IF offers = <<>> THEN <<>>
    ELSE (IF IsTraderOffer(Head(offers))
          THEN << [price |-> Head(offers).priceRUB[1],
                   vendor |-> Get(VendorOf(Head(offers)), "normalizedName"),
                   minLevel |-> Get(VendorOf(Head(offers)), "minTraderLevel"),
                   buyLimit |-> Get(VendorOf(Head(offers)), "buyLimit")] >>
          ELSE <<>>)
         \o TraderCandidates(Tail(offers))

\* min(candidates, key=price) of line 147: the first candidate of the
\* lowest price
RECURSIVE FirstMin(_)
FirstMin(cs) ==
    IF Len(cs) = 1 THEN cs[1]
    ELSE LET m == FirstMin(SubSeq(cs, 1, Len(cs) - 1))
         IN IF cs[Len(cs)].price < m.price THEN cs[Len(cs)] ELSE m

\* best_trader_buy, lines 125-153: None, or the four trader fields
BestTraderBuy(bf) ==
    IF ~bf.present \/ bf.offers = <<>> THEN None
    ELSE LET cs == TraderCandidates(bf.offers)
         IN IF cs = <<>> THEN None
            ELSE LET best_b == FirstMin(cs)
                 IN Some([traderBuyPrice |-> Some(best_b.price),
                          traderBuyVendor |-> best_b.vendor,
                          traderMinLevel |-> best_b.minLevel,
                          traderBuyLimit |-> best_b.buyLimit])

\* lines 156-178 for an item worth 1000: the entry, updated with the trader
\* fields when best_trader_buy returned some
EntryFor(bf) ==
    LET bt == BestTraderBuy(bf)
    IN IF bt = None
       THEN [name |-> Some("A"), basePrice |-> Some(1000)]
       ELSE [name |-> Some("A"), basePrice |-> Some(1000),
             traderBuyPrice |-> bt[1].traderBuyPrice,
             traderBuyVendor |-> bt[1].traderBuyVendor,
             traderMinLevel |-> bt[1].traderMinLevel,
             traderBuyLimit |-> bt[1].traderBuyLimit]

\* the entry as the selector reads it: a key whose value is None reads like
\* a key the dict lacks
AsCatalogEntry(e) ==
    [k \in {f \in DOMAIN e : e[f] # None} |-> e[k][1]]

InitTraderBuy ==
    /\ buy_for \in BuyForLists
    /\ entry = [built |-> FALSE]
    /\ SelectorIdle /\ CommandIdle
    /\ ChunkerIdle /\ FetcherIdle /\ FinderIdle

\* lines 156-179 for one item
BuildEntry ==
    /\ ~entry.built
    /\ entry' = [built |-> TRUE, fields |-> EntryFor(buy_for)]
    /\ UNCHANGED <<buy_for, selector, command, chunker, fetcher, finder>>

NextTraderBuy == BuildEntry

SpecTraderBuy == InitTraderBuy /\ [][NextTraderBuy]_vars

(* ---------------- find_item, src/price_search.py lines 217-267 --------- *)
\* bound: the number of items in the catalog searched
MaxFindItems == 2

\* the acceptance score of lines 259 and 263
MIN_SCORE == 80

\* items: X and Z have a shortName, Y has none
FindX == [name |-> "x", shortName |-> Some("sx")]
FindY == [name |-> "y", shortName |-> None]
FindZ == [name |-> "z", shortName |-> Some("sz")]
FindItems == {FindX, FindY, FindZ}
FindKeys == {"x", "y", "z", "sx", "sz"}

\* the scores, 0..100, the matcher gives a key for the search term: at,
\* just below and just above the acceptance score, and no likeness
Scores == {0, MIN_SCORE - 1, MIN_SCORE, MIN_SCORE + 1}

FindInputs ==
    {[tag |-> t, items |-> <<>>, score |-> [k \in FindKeys |-> 0]] :
        t \in {"None", "NoItemsKey"}}
    \cup {[tag |-> "Dict", items |-> q, score |-> sc] :
            q \in SeqsUpTo(FindItems, MaxFindItems), sc \in [FindKeys -> Scores]}

\* d[key] = item on a dict kept as a list of <<key, item>> in insertion order
DictPut(d, key, item) ==
    IF \E i \in 1..Len(d) : d[i][1] = key
    THEN [i \in 1..Len(d) |-> IF d[i][1] = key THEN <<key, item>> ELSE d[i]]
    ELSE Append(d, <<key, item>>)

DictGet(d, key) == (CHOOSE p \in {d[i] : i \in 1..Len(d)} : p[1] = key)[2]

\* the loop of lines 226-230
RECURSIVE NameMatches(_)
NameMatches(items) ==
    IF items = <<>> THEN <<>>
    ELSE DictPut(NameMatches(SubSeq(items, 1, Len(items) - 1)),
                 items[Len(items)].name, items[Len(items)])

RECURSIVE ShortNameMatches(_)
ShortNameMatches(items) ==
    IF items = <<>> THEN <<>>
    ELSE LET d == ShortNameMatches(SubSeq(items, 1, Len(items) - 1))
             it == items[Len(items)]
         IN IF it.shortName # None THEN DictPut(d, it.shortName[1], it) ELSE d

\* extractOne / best_match_dict of lines 234-253: None for no keys, else the
\* first key of the highest score, with the score
RECURSIVE ExtractOne(_, _)
ExtractOne(d, score) ==
    IF d = <<>> THEN None
    ELSE IF Len(d) = 1 THEN Some(<<d[1][1], score[d[1][1]]>>)
    ELSE LET m == ExtractOne(SubSeq(d, 1, Len(d) - 1), score)[1]
             k == d[Len(d)][1]
         IN IF score[k] > m[2] THEN Some(<<k, score[k]>>) ELSE Some(m)

\* variant: line 264 written as >=, a tie goes to the shortName match
PickMatch_TieToShort(names, shorts, name_match, shortname_match) ==
    LET accepted == name_match # None /\ name_match[1][2] >= MIN_SCORE
        best_score == IF accepted THEN name_match[1][2] ELSE 0
    IN IF /\ shortname_match # None
          /\ shortname_match[1][2] >= MIN_SCORE
          /\ shortname_match[1][2] >= best_score
       THEN Some(DictGet(shorts, shortname_match[1][1]))
       ELSE IF accepted THEN Some(DictGet(names, name_match[1][1]))
       ELSE None

\* lines 255-267
PickMatch(names, shorts, name_match, shortname_match) ==
    LET accepted == name_match # None /\ name_match[1][2] >= MIN_SCORE
        best_score == IF accepted THEN name_match[1][2] ELSE 0
    IN IF /\ shortname_match # None
          /\ shortname_match[1][2] >= MIN_SCORE
          /\ shortname_match[1][2] > best_score
       THEN Some(DictGet(shorts, shortname_match[1][1]))
       ELSE IF accepted THEN Some(DictGet(names, name_match[1][1]))
       ELSE None

\* find_item, lines 217-267
FindItem(in) ==
    IF in.tag # "Dict" THEN None
    ELSE LET names == NameMatches(in.items)
             shorts == ShortNameMatches(in.items)
         IN PickMatch(names, shorts, ExtractOne(names, in.score),
                      ExtractOne(shorts, in.score))

InitFindItem ==
    /\ find_in \in FindInputs
    /\ find_out = <<>>
    /\ SelectorIdle /\ CommandIdle
    /\ ChunkerIdle /\ FetcherIdle /\ TraderIdle

\* one call of find_item; find_out holds the value returned
CallFindItem ==
    /\ find_out = <<>>
    /\ find_out' = <<FindItem(find_in)>>
    /\ UNCHANGED <<find_in, selector, command, chunker, fetcher, trader>>

NextFindItem == CallFindItem

SpecFindItem == InitFindItem /\ [][NextFindItem]_vars

(* ================= properties ================= *)
Done == pc = "done"
Ok == result.outcome = "ok"
Pve == SelectedMode(mode) = "pve"
NoFeasible == result.outcome = "No feasible selection for given constraints"

RECURSIVE Picks(_)
Picks(cnts) == IF cnts = <<>> THEN 0 ELSE Head(cnts)[2] + Picks(Tail(cnts))

RECURSIVE BucketSum(_, _)
BucketSum(cands, cnts) ==
    IF cnts = <<>> THEN 0
    ELSE cands[Head(cnts)[1] + 1].vb * Head(cnts)[2] + BucketSum(cands, Tail(cnts))

\* brute force: every multiset of 1..K candidates, as a repetition count
\* per candidate; in the trader regime each count is at most the cap
RECURSIVE Weighted(_, _, _, _)
Weighted(cands, f, field, n) ==
    IF n = 0 THEN 0 ELSE cands[n][field] * f[n] + Weighted(cands, f, field, n - 1)

RECURSIVE Total(_, _)
Total(f, n) == IF n = 0 THEN 0 ELSE f[n] + Total(f, n - 1)

Multisets(cands, K, m) ==
    {f \in [1..Len(cands) -> 0..K] :
        /\ Total(f, Len(cands)) \in 1..K
        /\ m # "pve" => \A i \in 1..Len(cands) : f[i] <= cands[i].cap}

MultisetValue(cands, f) == Weighted(cands, f, "value", Len(cands))
MultisetCost(cands, f) == Weighted(cands, f, "cost", Len(cands))

\* C1: a successful call returns a total_value that is at least the threshold
C1_TotalValueReachesThreshold ==
    (Done /\ Ok) => result.total_value >= threshold

\* C2 as stated: a successful call returns a total_value of at most
\* maxBucket * STEP, whatever the values of the candidates
C2_TotalValueWithinWindow ==
    (Done /\ Ok) => result.total_value <= Ceil(threshold + MAX_OVER, STEP) * STEP

SelectedUnclamped ==
    \A i \in 1..Len(counts) :
        candidates[counts[i][1] + 1].value <= Ceil(threshold + MAX_OVER, STEP) * STEP

\* C2 amended: a successful call returns a total_value of at most
\* maxBucket * STEP whenever no selected candidate's own value exceeds
\* maxBucket * STEP
C2_TotalValueWithinWindowUnclamped ==
    (Done /\ Ok /\ SelectedUnclamped)
        => result.total_value <= Ceil(threshold + MAX_OVER, STEP) * STEP

C2_Witness ==
    /\ Done /\ Ok /\ SelectedUnclamped
    /\ \E i \in 1..Len(candidates) :
           candidates[i].value > Ceil(threshold + MAX_OVER, STEP) * STEP
    /\ result.total_value > threshold

\* C3: in the trader regime no candidate is returned with a repetition count
\* above its effective cap
C3_RepetitionWithinCap ==
    (Done /\ Ok /\ ~Pve) =>
        \A i \in 1..Len(counts) : counts[i][2] <= candidates[counts[i][1] + 1].cap

BruteFeasible ==
    {f \in Multisets(candidates, KOf(max_items), SelectedMode(mode)) :
        Ceil(MultisetValue(candidates, f), STEP) >= Ceil(threshold, STEP)}

\* C4: the returned total_cost is the minimum cost over the multisets of
\* 1..K candidates (within the caps in the trader regime) whose summed value
\* reaches the threshold bucket, and the call fails with NoFeasibleSelection
\* only when there is no such multiset
C4_AgreesWithBruteForce ==
    Done =>
        /\ Ok => /\ \E f \in BruteFeasible :
                        MultisetCost(candidates, f) = result.total_cost
                 /\ \A f \in BruteFeasible :
                        MultisetCost(candidates, f) >= result.total_cost
        /\ NoFeasible => BruteFeasible = {}

\* C5: the returned total_cost equals the cost summed over the returned
\* selection
C5_TotalCostIsSelectionCost ==
    (Done /\ Ok) => result.total_cost = SumCost(candidates, counts)

ScenarioC6 ==
    /\ items_data = [tag |-> "Dict", items |-> <<EntryA, EntryB>>]
    /\ threshold = 1500
    /\ max_items = 3

ReachesValue(v) ==
    {f \in Multisets(candidates, KOf(max_items), SelectedMode(mode)) :
        MultisetValue(candidates, f) >= v}

\* C6: for the catalog {A, B} with threshold 1500 and K = 3 the call returns
\* a selection of value at least 1500 whose cost is the minimum among the
\* combinations whose value reaches 1500
C6_Scenario ==
    (Done /\ ScenarioC6) =>
        /\ Ok
        /\ result.total_value >= 1500
        /\ \E f \in ReachesValue(1500) :
               MultisetCost(candidates, f) = result.total_cost
        /\ \A f \in ReachesValue(1500) :
               MultisetCost(candidates, f) >= result.total_cost

\* the repetition counts n in 1..K with thresholdBucket <= n*b <= maxBucket
\* for the bucket b of a single candidate
SingleReps ==
    {n \in 1..(IF max_items >= 1 THEN max_items ELSE 1) :
        /\ Ceil(threshold, STEP) <= n * candidates[1].vb
        /\ n * candidates[1].vb <= Ceil(threshold + MAX_OVER, STEP)}

\* C7: in the flea regime a catalog with one valid candidate succeeds exactly
\* when some n in 1..K repetitions land in the bucket window, and returns the
\* candidate with the smallest such n, whatever its trader buy limit
C7_SingleCandidateRepeats ==
    (Done /\ Pve /\ Len(candidates) = 1) =>
        /\ Ok <=> SingleReps # {}
        /\ ~Ok => NoFeasible
        /\ Ok => /\ Len(counts) = 1
                 /\ counts[1][1] = 0
                 /\ counts[1][2] \in SingleReps
                 /\ \A n \in SingleReps : counts[1][2] <= n

C7_Witness ==
    /\ Done /\ Pve /\ Ok /\ Len(candidates) = 1
    /\ max_items = MaxK
    /\ counts = << <<0, MaxK>> >>
    /\ \E i \in 1..Len(items_data.items) :
           /\ items_data.items[i].name = candidates[1].name
           /\ "traderBuyLimit" \in DOMAIN items_data.items[i]
           /\ items_data.items[i].traderBuyLimit = 1

Chosen == pc \in {"walk", "aggregate"} \/ (Done /\ Ok)

FeasibleCells ==
    {cell \in (1..KOf(max_items)) \X (Tb(threshold)..VbMax(threshold)) :
        dp[cell[1]][cell[2]] < INF}

\* C8: the chosen cell is feasible and is the lexicographic minimum of
\* (cost, count, bucket) over the feasible cells
C8_ChosenIsLexMin ==
    Chosen =>
        /\ <<best.best_count, best.best_vb>> \in FeasibleCells
        /\ best.best_cost = dp[best.best_count][best.best_vb]
        /\ \A cell \in FeasibleCells :
              LET cost == dp[cell[1]][cell[2]]
              IN /\ cost >= best.best_cost
                 /\ cost = best.best_cost => cell[1] >= best.best_count
                 /\ (cost = best.best_cost /\ cell[1] = best.best_count)
                        => cell[2] >= best.best_vb

\* a cell of equal cost and more items is feasible, and the cheaper count won
C8_Witness ==
    /\ Done /\ Ok
    /\ \E cell \in FeasibleCells :
          /\ dp[cell[1]][cell[2]] = best.best_cost
          /\ cell[1] > best.best_count

\* C9: any two orderings of the same candidate list give the same failure,
\* or the same total_cost with selections of equal cost, equal number of
\* picks and equal bucket sum
C9_OrderOnlyBreaksTies ==
    Done /\ candidates # <<>> =>
        \A order \in Shuffles(candidates) :
            LET other == Solve(order, threshold, max_items, SelectedMode(mode))
            IN /\ other.result.outcome = result.outcome
               /\ other.result.total_cost = result.total_cost
               /\ SumCost(order, other.counts) = SumCost(candidates, counts)
               /\ Picks(other.counts) = Picks(counts)
               /\ BucketSum(order, other.counts) = BucketSum(candidates, counts)

NoValid == result.outcome = "No valid candidates"
Missing == result.outcome = "Missing items data"

\* the value / cost filter, read off the raw entry
EntryPasses(it) ==
    /\ "basePrice" \in DOMAIN it
    /\ it.basePrice >= 1
    /\ IF mode = "pve"
       THEN "pvePrice" \in DOMAIN it /\ it.pvePrice >= 1
       ELSE "traderBuyPrice" \in DOMAIN it /\ it.traderBuyPrice >= 1

PassingEntries ==
    {i \in 1..Len(items_data.items) : EntryPasses(items_data.items[i])}

\* C11: the call fails with 'No valid candidates' exactly when the catalog
\* has an item list of which no entry passes the filter of the regime, and
\* no table has been built by then
C11_NoValidCandidates ==
    Done =>
        /\ NoValid <=> (items_data.tag = "Dict" /\ PassingEntries = {})
        /\ NoValid => /\ candidates = <<>>
                      /\ dp = <<>>
                      /\ prevV = <<>>
                      /\ units = <<>>

C11_Witness ==
    /\ Done /\ NoValid
    /\ Len(items_data.items) = MaxCatalogLen
    /\ threshold > 0
    /\ max_items > 1

\* C12: the call fails with 'No feasible selection' exactly when there is a
\* valid candidate and no cell with count in 1..K and bucket in
\* thresholdBucket..maxBucket has a finite cost; with max_items = 1 it fails
\* whenever no candidate's bucket reaches thresholdBucket
C12_NoFeasibleSelection ==
    Done =>
        /\ NoFeasible <=> (candidates # <<>> /\ FeasibleCells = {})
        /\ (/\ candidates # <<>>
            /\ max_items = 1
            /\ \A i \in 1..Len(candidates) :
                   candidates[i].vb < Ceil(threshold, STEP)) => NoFeasible

C12_Witness ==
    /\ Done /\ NoFeasible
    /\ max_items = 1
    /\ Len(candidates) = MaxCatalogLen
    /\ \A i \in 1..Len(candidates) : candidates[i].vb < Ceil(threshold, STEP)

OutcomeOK ==
    Done =>
        /\ result.outcome \in {"Missing items data", "No valid candidates",
                               "No feasible selection for given constraints", "ok"}
        /\ Missing <=> items_data.tag \in {"None", "NoItemsKey"}
        /\ Missing => candidates = <<>> /\ dp = <<>>
        /\ ~Ok => /\ result.sel_lines = <<>>
                  /\ counts = <<>>

\* C13: a call ends in exactly one of the four outcomes and no step follows
\* it; 'Missing items data' is the outcome exactly when the catalog is absent
\* or has no item list, and it is raised before anything else is built; a
\* failure carries no selection
C13_FourOutcomes ==
    /\ []OutcomeOK
    /\ [][pc # "done" /\ result = Running]_vars

C13_Witness ==
    /\ Done /\ Missing
    /\ items_data.tag = "NoItemsKey"
    /\ threshold = 0

\* the cost field of the regime, read off the raw entry
RegimeCost(it) == IF mode = "pve" THEN it.pvePrice ELSE it.traderBuyPrice

\* C14: with threshold 0 and a valid candidate the call succeeds with exactly
\* one pick, a candidate of the minimum cost among the valid ones, and
\* total_cost is that minimum
C14_ZeroThreshold ==
    (Done /\ threshold = 0 /\ items_data.tag = "Dict" /\ PassingEntries # {}) =>
        /\ Ok
        /\ Len(counts) = 1
        /\ counts[1][2] = 1
        /\ Len(result.sel_lines) = 1
        /\ result.sel_lines[1].cnt = 1
        /\ \A i \in PassingEntries :
               /\ RegimeCost(items_data.items[i]) >= result.total_cost
               /\ RegimeCost(items_data.items[i]) >= result.sel_lines[1].cost
        /\ \E i \in PassingEntries :
               /\ RegimeCost(items_data.items[i]) = result.total_cost
               /\ items_data.items[i].name = result.sel_lines[1].name
               /\ result.sel_lines[1].cost = result.total_cost

C14_Witness ==
    /\ Done /\ Ok /\ threshold = 0 /\ ~Pve
    /\ max_items = MaxK
    /\ Cardinality(PassingEntries) = 2
    /\ counts = << <<1, 1>> >>
    /\ candidates[1].cost > candidates[2].cost
    /\ candidates[1].vb < candidates[2].vb

\* C15: sel_lines has one line per distinct selected candidate with that
\* candidate's repetition count, in the order of descending value and, among
\* equal values, ascending cost; the totals are those of the selection as
\* the walk left it
C15_DisplayOrder ==
    (Done /\ Ok) =>
        LET lines == result.sel_lines
        IN /\ Len(lines) = Len(counts)
           /\ \A i, j \in 1..Len(counts) : i # j => counts[i][1] # counts[j][1]
           /\ \A i, j \in 1..Len(lines) : i # j => lines[i].name # lines[j].name
           /\ \A i \in 1..Len(counts) :
                  \E j \in 1..Len(lines) :
                      /\ lines[j].name = candidates[counts[i][1] + 1].name
                      /\ lines[j].cnt = counts[i][2]
                      /\ lines[j].value = candidates[counts[i][1] + 1].value
                      /\ lines[j].cost = candidates[counts[i][1] + 1].cost
           /\ \A i, j \in 1..Len(lines) :
                  i < j => \/ lines[i].value > lines[j].value
                           \/ /\ lines[i].value = lines[j].value
                              /\ lines[i].cost <= lines[j].cost
           /\ result.total_value = SumValue(candidates, counts)
           /\ result.total_cost = best.best_cost

\* two candidates of equal value are selected and the display order is not
\* the order in which the walk met them
C15_Witness ==
    /\ Done /\ Ok
    /\ Len(counts) = 2
    /\ result.sel_lines[1].value = result.sel_lines[2].value
    /\ result.sel_lines[1].cost < result.sel_lines[2].cost
    /\ result.sel_lines[1].name = candidates[counts[2][1] + 1].name

EntryOf(cand) ==
    CHOOSE it \in {items_data.items[i] : i \in 1..Len(items_data.items)} :
        it.name = cand.name

\* the number of units C17 expects for a candidate, K being max_items
ExpectedUnits(cand) ==
    LET it == EntryOf(cand)
    IN IF "traderBuyLimit" \in DOMAIN it /\ it.traderBuyLimit >= 1
       THEN (IF it.traderBuyLimit <= max_items THEN it.traderBuyLimit ELSE max_items)
       ELSE max_items

UnitsOf(k) == {j \in 1..Len(units) : units[j].idx = k - 1}

Expanded == ~Pve /\ pc \notin {"start", "tables"} /\ candidates # <<>>

\* C17: in the trader regime each candidate is expanded into min(limit, K)
\* units when its traderBuyLimit is positive and into K units otherwise, each
\* unit with the candidate's bucket and cost
C17_UnitExpansion ==
    Expanded =>
        /\ \A j \in 1..Len(units) :
               /\ units[j].idx \in 0..(Len(candidates) - 1)
               /\ units[j].vb = candidates[units[j].idx + 1].vb
               /\ units[j].cost = candidates[units[j].idx + 1].cost
        /\ \A k \in 1..Len(candidates) :
               /\ Cardinality(UnitsOf(k)) = ExpectedUnits(candidates[k])
               /\ Cardinality(UnitsOf(k)) \in 1..max_items

\* one candidate is limited below K, another has a limit of 0 and gets K units
C17_Witness ==
    /\ Expanded
    /\ max_items = MaxK
    /\ \E k \in 1..Len(candidates) : Cardinality(UnitsOf(k)) < max_items
    /\ \E k \in 1..Len(candidates) :
           /\ "traderBuyLimit" \in DOMAIN EntryOf(candidates[k])
           /\ EntryOf(candidates[k]).traderBuyLimit = 0
           /\ Cardinality(UnitsOf(k)) = max_items

TopCount == IF max_items >= 1 THEN max_items ELSE 1
TopBucket == Ceil(threshold + MAX_OVER, STEP)

\* the table cells the step about to be taken reads or writes: lines 94-114,
\* lines 138-146, lines 150-152 and lines 168-169 / 178-179
CellsTouched ==
    CASE pc = "pve" ->
            {<<ccount, b>> : b \in 0..VbMax(threshold)}
            \cup {<<ccount - 1, b - candidates[i].vb>> :
                    <<i, b>> \in {p \in (1..Len(candidates)) \X (0..VbMax(threshold)) :
                                     p[2] - candidates[p[1]].vb >= 0}}
      [] pc = "pvp" ->
            LET ivb == units[u_idx + 1].vb
                span == (1..KOf(max_items)) \X (ivb..VbMax(threshold))
            IN span \cup {<<p[1] - 1, p[2] - ivb>> : p \in span}
      [] pc = "select" ->
            (1..KOf(max_items)) \X (Tb(threshold)..VbMax(threshold))
      [] pc = "walk" ->
            IF ccount > 0 /\ vb >= 0 THEN {<<ccount, vb>>} ELSE {}
      [] OTHER -> {}

\* C18: every candidate's bucket lies in 1..maxBucket, and every table cell
\* touched by the solve, the feasibility scan and the walk has its count in
\* 0..K and its bucket in 0..maxBucket
C18_BucketsAndIndicesInRange ==
    /\ pc # "start" =>
           \A i \in 1..Len(candidates) : candidates[i].vb \in 1..TopBucket
    /\ pc \in {"pve", "pvp", "select", "walk"} =>
           /\ DOMAIN dp = 0..TopCount
           /\ \A c \in 0..TopCount : DOMAIN dp[c] = 0..TopBucket
           /\ \A cell \in CellsTouched :
                  /\ cell[1] \in 0..TopCount
                  /\ cell[2] \in 0..TopBucket
    /\ pc = "pvp" => u_idx \in 0..(Len(units) - 1)

\* the walk stands on the boundary bucket, put there by a candidate worth
\* more than threshold + MAX_OVER
C18_Witness ==
    /\ pc = "walk"
    /\ ccount > 0
    /\ vb = TopBucket
    /\ \E i \in 1..Len(candidates) :
           /\ candidates[i].value > threshold + MAX_OVER
           /\ candidates[i].vb = TopBucket

\* brute force over repetition counts: every way to pick at most K
\* candidates, none picked included
AllPicks == {f \in [1..Len(candidates) -> 0..TopCount] :
                Total(f, Len(candidates)) <= TopCount}
PickCount(f) == Total(f, Len(candidates))
PickBucket(f) == Weighted(candidates, f, "vb", Len(candidates))
PickCost(f) == MultisetCost(candidates, f)

\* the picks that use no candidate more often than C17's unit count
CapPicks == {f \in AllPicks :
                \A i \in 1..Len(candidates) : f[i] <= ExpectedUnits(candidates[i])}

\* every cell of dp is the minimum cost over the picks P of exactly that
\* count and exactly that bucket sum, and infinite when there is none
TableIsMinimum(P) ==
    /\ \A f \in P :
           PickBucket(f) <= TopBucket => dp[PickCount(f)][PickBucket(f)] <= PickCost(f)
    /\ \A c \in 0..TopCount : \A b \in 0..TopBucket :
           /\ dp[c][b] <= INF
           /\ dp[c][b] < INF =>
                  \E f \in P : /\ PickCount(f) = c
                               /\ PickBucket(f) = b
                               /\ PickCost(f) = dp[c][b]

\* the outcome is the minimum cost over the picks of P with 1..K items and a
\* bucket sum in thresholdBucket..maxBucket, and a failure when there is none
ResultIsMinimum(P) ==
    LET window == {f \in P : /\ PickCount(f) >= 1
                             /\ PickBucket(f) >= Ceil(threshold, STEP)
                             /\ PickBucket(f) <= TopBucket}
    IN /\ Ok <=> window # {}
       /\ ~Ok => NoFeasible
       /\ Ok => /\ \E f \in window : PickCost(f) = result.total_cost
                /\ \A f \in window : PickCost(f) >= result.total_cost

\* C19: in the flea regime, after the solve, dp[c][b] is the minimum cost
\* over all selections of exactly c candidates, repetition unrestricted, whose
\* buckets sum to exactly b, infinite when there is none; the returned
\* total_cost is the minimum over 1..K candidates with a bucket sum in the
\* window
C19_UnboundedTable ==
    /\ (Pve /\ pc = "select") => TableIsMinimum(AllPicks)
    /\ (Pve /\ Done /\ candidates # <<>>) => ResultIsMinimum(AllPicks)

\* two selections of the same count and bucket sum differ in cost, and the
\* table is full height
C19_Witness ==
    /\ Pve /\ pc = "select"
    /\ max_items = MaxK
    /\ \E f, g \in AllPicks :
           /\ PickCount(f) = MaxK /\ PickCount(g) = MaxK
           /\ PickBucket(f) = PickBucket(g)
           /\ PickBucket(f) <= TopBucket
           /\ PickCost(f) < PickCost(g)
           /\ dp[PickCount(f)][PickBucket(f)] = PickCost(f)

\* C20: in the trader regime, after all units, dp[c][b] is the minimum cost
\* over the selections of exactly c units, each candidate at most as often
\* as it has units, whose buckets sum to exactly b, infinite when there is
\* none; the returned total_cost is the minimum over such selections of 1..K
\* units with a bucket sum in the window, for every order of the units
C20_BoundedTable ==
    /\ (~Pve /\ pc = "select") => TableIsMinimum(CapPicks)
    /\ (~Pve /\ Done /\ candidates # <<>>) => ResultIsMinimum(CapPicks)

\* a selection beyond a candidate's cap would be cheaper than the cell's cost
C20_Witness ==
    /\ ~Pve /\ pc = "select"
    /\ \E f \in AllPicks \ CapPicks :
           /\ PickCount(f) >= 2
           /\ PickBucket(f) <= TopBucket
           /\ PickBucket(f) >= Ceil(threshold, STEP)
           /\ PickCost(f) < dp[PickCount(f)][PickBucket(f)]
           /\ dp[PickCount(f)][PickBucket(f)] < INF
\* the back-pointer and predecessor bucket the walk reads at its cell
WalkPtr == IF Pve THEN prevI[ccount][vb] ELSE prevU[ccount][vb]
WalkPv == prevV[ccount][vb]

\* C21: the walk from the chosen cell never takes the break of line 171 /
\* 181: every cell it stands on with count > 0 has both pointers set, it
\* leaves the loop at cell (0, 0) after exactly best_count steps, and the
\* selection then has best_count picks (between 1 and K) whose buckets sum to
\* best_vb, in both regimes
C21_WalkReachesOrigin ==
    /\ pc = "walk" =>
           /\ ccount >= 0 /\ vb >= 0
           /\ ccount > 0 => WalkPtr >= 0 /\ WalkPv >= 0
           /\ ccount = 0 => vb = 0
           /\ Picks(counts) + ccount = best.best_count
           /\ BucketSum(candidates, counts) + vb = best.best_vb
    /\ (pc = "aggregate" \/ (Done /\ Ok)) =>
           /\ ccount = 0 /\ vb = 0
           /\ Picks(counts) = best.best_count
           /\ best.best_count \in 1..TopCount
           /\ BucketSum(candidates, counts) = best.best_vb

\* a trader-regime walk of several steps that met one candidate more often
\* than it has units
C21_Witness ==
    /\ Done /\ Ok /\ ~Pve
    /\ Picks(counts) >= 2
    /\ Picks(counts) = best.best_count
    /\ \E i \in 1..Len(counts) : counts[i][2] > candidates[counts[i][1] + 1].cap
\* rows 1..c-1 of the flea-regime tables, c being the row in progress
RowsComputed == IF pc = "pve" THEN 1..(ccount - 1) ELSE 1..TopCount

\* every finite cell of a computed row points at the predecessor cell and the
\* candidate that produced its cost
PointersConsistent ==
    \A c \in RowsComputed : \A b \in 0..TopBucket :
        dp[c][b] < INF =>
            /\ prevI[c][b] \in 0..(Len(candidates) - 1)
            /\ prevV[c][b] = b - candidates[prevI[c][b] + 1].vb
            /\ prevV[c][b] >= 0
            /\ dp[c - 1][prevV[c][b]] < INF
            /\ dp[c][b] = dp[c - 1][prevV[c][b]] + candidates[prevI[c][b] + 1].cost

\* a step of the flea-regime solve writes row ccount only, and no step
\* after the solve writes the tables
RowsFrozen ==
    /\ (Pve /\ pc = "pve") =>
           \A c \in 0..TopCount :
               c # ccount => /\ dp'[c] = dp[c]
                             /\ prevV'[c] = prevV[c]
                             /\ prevI'[c] = prevI[c]
    /\ (Pve /\ pc \in {"select", "walk", "aggregate", "done"}) =>
           UNCHANGED <<dp, prevV, prevI>>

\* C22: in the flea regime the cost summed over the returned selection is
\* the returned total_cost; a row of dp, prevV and prevI is not written again
\* once it has been computed, and each back-pointer refers to the predecessor
\* cell and candidate that produced the cell's cost
C22_FleaSelectionCost ==
    /\ []((Pve /\ Done /\ Ok) => SumCost(candidates, counts) = result.total_cost)
    /\ []((Pve /\ pc \in {"pve", "select", "walk", "aggregate"}) => PointersConsistent)
    /\ [][RowsFrozen]_vars

\* two picks of the cheaper of two candidates that share a bucket
C22_Witness ==
    /\ Done /\ Ok /\ Pve
    /\ Len(candidates) = 2
    /\ candidates[1].vb = candidates[2].vb
    /\ candidates[1].cost # candidates[2].cost
    /\ Picks(counts) >= 2
    /\ result.total_cost = SumCost(candidates, counts)
\* the outcome of a call as a function of its arguments and of the order
\* the shuffle of line 70 gave the candidates
CallOutcome ==
    IF items_data.tag # "Dict" THEN Failure("Missing items data")
    ELSE IF PassingEntries = {} THEN Failure("No valid candidates")
    ELSE Solve(candidates, threshold, max_items, SelectedMode(mode)).result

\* the candidate list is the filtered catalog in catalog order, or one of
\* its orderings when randomize is set
CandidatesFromCatalog ==
    LET built == Quantize(BuildCandidates(items_data.items, SelectedMode(mode),
                                          max_items), threshold)
    IN IF randomize THEN candidates \in Shuffles(built) ELSE candidates = built

Returned == cmd_pc = "returned"

\* C24: an invocation defers before anything else and sends nothing until
\* the selector has finished; once the handler has returned it has sent
\* exactly one follow-up: the text 'Error: <message>' without an embed when
\* the selector raised (a catalog fetch that returned nothing included), and
\* otherwise one embed without text; the selector is entered at most once
C24_OneFollowup ==
    /\ cmd_pc # "defer" => deferred
    /\ cmd_pc \in {"defer", "fetch", "call", "selector"} => followups = <<>>
    /\ selector_calls <= 1
    /\ cmd_pc \in {"selector", "send", "returned"} => selector_calls = 1
    /\ Len(followups) <= 1
    /\ Returned =>
           /\ deferred
           /\ pc = "done"
           /\ Len(followups) = 1
           /\ IF result.outcome = "ok"
              THEN /\ followups[1].content = <<>>
                   /\ followups[1].embed # NoEmbed
                   /\ followups[1].embed = embed
              ELSE /\ followups[1].content = <<"Error: ", result.outcome>>
                   /\ followups[1].embed = NoEmbed
           /\ items_data.tag = "None" =>
                  followups[1].content = <<"Error: ", "Missing items data">>

\* the fetch returned nothing and the handler answered with the error text
C24_Witness ==
    /\ Returned
    /\ items_data.tag = "None"
    /\ followups = << [content |-> <<"Error: ", "Missing items data">>,
                       embed |-> NoEmbed] >>
    /\ selector_calls = 1
\* the lines of all fields, in the order of the fields
RECURSIVE Flatten(_)
Flatten(fs) == IF fs = <<>> THEN <<>> ELSE Head(fs) \o Flatten(Tail(fs))

\* the running length of lines i..j: the line lengths plus one per line
RECURSIVE RunningLen(_, _, _)
RunningLen(lens, i, j) ==
    IF i > j THEN 0 ELSE lens[i] + 1 + RunningLen(lens, i + 1, j)

\* len("\n".join(...)) of a field
TextLen(lens, chunk) == RunningLen(lens, chunk[1], chunk[Len(chunk)]) - 1

\* C25: the fields hold the lines 1..n once each and in order; no field is
\* empty; two neighbouring lines are in different fields exactly when the
\* running length of the earlier line's field up to that line, plus the next
\* line and its separator, exceeds 1000; a field's text is at most 1000
\* characters unless the field is one single line
C25_SelectionFields ==
    sel_fields.built =>
        LET fs == sel_fields.fields
        IN /\ Flatten(fs) = [i \in 1..Len(line_lens) |-> i]
           /\ \A k \in 1..Len(fs) : fs[k] # <<>>
           /\ \A k \in 1..Len(fs) : \A j \in 1..Len(fs[k]) :
                  LET i == fs[k][j]
                      upto == RunningLen(line_lens, fs[k][1], i)
                  IN i < Len(line_lens) =>
                        ((j = Len(fs[k])) <=>
                            (upto + line_lens[i + 1] + 1 > FieldLimit))
           /\ \A k \in 1..Len(fs) :
                  \/ TextLen(line_lens, fs[k]) <= FieldLimit
                  \/ Len(fs[k]) = 1

\* a line longer than the budget alone in a field between two fields that
\* are filled to the budget
C25_Witness ==
    /\ sel_fields.built
    /\ Len(sel_fields.fields) = 3
    /\ Len(sel_fields.fields[2]) = 1
    /\ line_lens[sel_fields.fields[2][1]] > FieldLimit
    /\ Len(sel_fields.fields[1]) = 2
    /\ RunningLen(line_lens, 1, 2) = FieldLimit
\* caller p enters fetch_items_data in this step
Starts(p) == callers[p].pc = "idle" /\ callers'[p].pc # "idle"
\* the call of p is served from the cache, with no request
ServedFromCache(p, data) ==
    /\ callers'[p].pc = "returned"
    /\ ~callers'[p].issued
    /\ callers'[p].ret = data
Age == now - cache_file.mtime

\* the cache rule of a single call
CacheRule(p) ==
    /\ (cache_file.state = "ok" /\ Age < 600) => ServedFromCache(p, cache_file.data)
    /\ (cache_file.state = "absent" \/ Age >= 600) =>
           callers'[p].pc = "request" /\ callers'[p].issued

\* C26 as stated: a call is served from the cache with no request when the
\* file exists, loads and is younger than 600 s, and sends a request when the
\* file is absent or 600 s old or older; a call made less than 600 s after
\* any successful cache write returns the data of that write with no request
C26_CacheServesFresh ==
    [][\A p \in 1..Len(callers) :
          Starts(p) =>
              /\ CacheRule(p)
              /\ \A i \in 1..Len(writes) :
                     now - writes[i].time < 600 =>
                         ServedFromCache(p, writes[i].data)]_vars

\* the latest successful write, when the file still holds what it wrote
LatestWriteStands ==
    /\ writes # <<>>
    /\ cache_file = [state |-> "ok", data |-> writes[Len(writes)].data,
                     mtime |-> writes[Len(writes)].time]

\* C26 amended: the cache rule of a single call as above; a call made less
\* than 600 s after a successful cache write returns the data of that write
\* with no request provided no other fetch has written or truncated the file
\* since
C26_CacheServesLatestWrite ==
    [][\A p \in 1..Len(callers) :
          Starts(p) =>
              /\ CacheRule(p)
              /\ (LatestWriteStands /\ now - writes[Len(writes)].time < 600) =>
                     ServedFromCache(p, writes[Len(writes)].data)]_vars

\* a call 599 s after the second of two cache writes is served the second
\* write's data with no request
C26_Witness ==
    /\ Len(writes) = 2
    /\ LatestWriteStands
    /\ now - cache_file.mtime = CACHE_TTL_SECONDS - 1
    /\ \E p \in 1..Len(callers) :
           /\ callers[p].pc = "returned"
           /\ ~callers[p].issued
           /\ callers[p].ret = writes[2].data
           /\ callers[p].ret # writes[1].data
\* the POST of caller p is answered in this step
Answered(p) == callers[p].pc = "request" /\ callers'[p].pc = "returned"

\* C27: a fetch that fails, by a status other than 200 or by an exception,
\* returns None and leaves the cache file as it was; a result other than
\* None is either the content of a cache file younger than 600 s, returned by
\* the cache lookup, or the result of the fetch answered in this very call
C27_FailedFetchReturnsNone ==
    [][\A p \in 1..Len(callers) :
          /\ (Answered(p) /\ callers'[p].net # "ok") =>
                 /\ callers'[p].ret = NoneData
                 /\ cache_file' = cache_file
          /\ (callers'[p].pc = "returned" /\ callers[p].pc # "returned"
                  /\ callers'[p].ret # NoneData) =>
                 \/ /\ Starts(p)
                    /\ cache_file.state = "ok"
                    /\ Age < 600
                    /\ callers'[p].ret = cache_file.data
                 \/ /\ Answered(p)
                    /\ callers'[p].net = "ok"
                    /\ fetched' = fetched + 1
                    /\ callers'[p].ret = fetched']_vars

\* a fetch failed while the cache file held loadable content 600 s old or
\* older, and the call returned None
C27_Witness ==
    /\ cache_file.state = "ok"
    /\ Age >= CACHE_TTL_SECONDS
    /\ \E p \in 1..Len(callers) :
           /\ callers[p].pc = "returned"
           /\ callers[p].issued
           /\ callers[p].net \in {"status", "exception"}
           /\ callers[p].ret = NoneData

\* C28: a call that finds a cache file it cannot read or parse, of any age,
\* goes on to the network fetch; a fetch that succeeded returns its result
\* whatever the cache write did; a call returns None only after a failed
\* fetch
C28_CacheFaultsTolerated ==
    [][\A p \in 1..Len(callers) :
          /\ (Starts(p) /\ cache_file.state \in {"unparsable", "unreadable"}) =>
                 /\ callers'[p].pc = "request"
                 /\ callers'[p].issued
          /\ (Answered(p) /\ callers'[p].net = "ok") =>
                 /\ callers'[p].wrote \in WriteOutcomes
                 /\ callers'[p].ret = fetched'
                 /\ callers'[p].ret # NoneData
          /\ (callers'[p].pc = "returned" /\ callers'[p].ret = NoneData) =>
                 callers'[p].net \in {"status", "exception"}]_vars

\* a fetch returned its result although json.dump failed, and the next call,
\* finding the truncated file still young, has sent a request
C28_Witness ==
    /\ cache_file.state = "unparsable"
    /\ Age < CACHE_TTL_SECONDS
    /\ \E p, q \in 1..Len(callers) :
           /\ callers[p].pc = "returned"
           /\ callers[p].wrote = "dump_failed"
           /\ callers[p].ret = fetched
           /\ callers[q].pc = "request"
           /\ callers[q].issued
           /\ fetched = 1
\* the offers C29 lets through: a price that is an int of at least 1, and a
\* vendor carrying minTraderLevel or buyLimit
Qualifying ==
    {i \in 1..Len(buy_for.offers) :
        LET o == buy_for.offers[i]
        IN /\ "priceRUB" \in DOMAIN o /\ o.priceRUB # None /\ o.priceRUB[1] >= 1
           /\ "vendor" \in DOMAIN o
           /\ \/ "minTraderLevel" \in DOMAIN o.vendor
              \/ "buyLimit" \in DOMAIN o.vendor}

TraderFields == {"traderBuyPrice", "traderBuyVendor", "traderMinLevel", "traderBuyLimit"}

\* C29: the entry's traderBuyPrice is the lowest priceRUB among the
\* qualifying offers, and vendor, minimum level and buy limit are those of
\* one qualifying offer of that price; with no qualifying offer the entry
\* has none of the trader fields and the trader regime filters it out
C29_CheapestTraderOffer ==
    entry.built =>
        LET e == entry.fields
        IN IF Qualifying = {}
           THEN /\ DOMAIN e \cap TraderFields = {}
                /\ ~IsValid(AsCatalogEntry(e), "pvp")
           ELSE /\ TraderFields \subseteq DOMAIN e
                /\ \A i \in Qualifying :
                       e.traderBuyPrice[1] <= buy_for.offers[i].priceRUB[1]
                /\ \E i \in Qualifying :
                       LET o == buy_for.offers[i]
                       IN /\ e.traderBuyPrice = o.priceRUB
                          /\ e.traderBuyVendor = Get(o.vendor, "normalizedName")
                          /\ e.traderMinLevel = Get(o.vendor, "minTraderLevel")
                          /\ e.traderBuyLimit = Get(o.vendor, "buyLimit")
                /\ IsValid(AsCatalogEntry(e), "pvp")
                /\ AsCatalogEntry(e).traderBuyPrice = e.traderBuyPrice[1]

\* the flea market is cheaper than every trader, two traders ask the same
\* price, and the entry carries the fields of the one listed first
C29_Witness ==
    /\ entry.built
    /\ buy_for.offers = <<OfferFlea, OfferSkier, OfferPrapor>>
    /\ entry.fields.traderBuyPrice = Some(100)
    /\ entry.fields.traderBuyVendor = Some("skier")
    /\ entry.fields.traderBuyLimit = None
Found == find_out # <<>>
Returns == find_out[1]

\* the items of the catalog searched, and the best scores among their names
\* and among their shortNames (-1 when there is none)
Searched == {find_in.items[i] : i \in 1..Len(find_in.items)}
WithShort == {it \in Searched : it.shortName # None}
BestOf(S) == IF S = {} THEN -1 ELSE CHOOSE v \in S : \A w \in S : w <= v
BestNameScore == BestOf({find_in.score[it.name] : it \in Searched})
BestShortScore == BestOf({find_in.score[it.shortName[1]] : it \in WithShort})

\* C30: None for a missing catalog or one without 'items'; otherwise None
\* when both best scores are below 80; an item whose shortName has the best
\* shortName score when that score is at least 80 and above the best name
\* score, or the best name score is below 80; and otherwise an item whose
\* name has the best name score, also when the two scores tie
C30_FindItem ==
    Found =>
        IF find_in.tag # "Dict" THEN Returns = None
        ELSE /\ (BestNameScore < 80 /\ BestShortScore < 80) <=> Returns = None
             /\ Returns # None => Returns[1] \in Searched
             /\ (BestShortScore >= 80
                   /\ (BestShortScore > BestNameScore \/ BestNameScore < 80)) =>
                    /\ Returns # None
                    /\ Returns[1].shortName # None
                    /\ find_in.score[Returns[1].shortName[1]] = BestShortScore
             /\ (BestNameScore >= 80
                   /\ ~(BestShortScore >= 80 /\ BestShortScore > BestNameScore)) =>
                    /\ Returns # None
                    /\ find_in.score[Returns[1].name] = BestNameScore

\* the best name and the best shortName both score 80, on different items,
\* and the item matched by name is returned
C30_Witness ==
    /\ Found
    /\ find_in.tag = "Dict"
    /\ BestNameScore = MIN_SCORE
    /\ BestShortScore = MIN_SCORE
    /\ Returns # None
    /\ find_in.score[Returns[1].name] = MIN_SCORE
    /\ \E it \in WithShort :
           /\ it # Returns[1]
           /\ find_in.score[it.shortName[1]] = MIN_SCORE
           /\ find_in.score[it.name] < MIN_SCORE
    /\ Returns[1].shortName # None => find_in.score[Returns[1].shortName[1]] < MIN_SCORE
====
